---------------------------- MODULE Spec2Model ----------------------------
(***************************************************************************)
(* Grid-trading pipeline of grid-bot: the Optimizer (signal handler, risk  *)
(* engine, grid calculator, breakout overlay), the Executor (paper fills,  *)
(* paper portfolio) and the message bus / shared snapshot between them.    *)
(*                                                                         *)
(* Number representation (the code computes in IEEE doubles):              *)
(*   prices and money      integer cents                                   *)
(*   quantities            integer multiples of 1/QtyScale token           *)
(*   percentages           integer basis points (1/100 of a percent)       *)
(* Every roundTo(..) of the code is a RoundDiv at the place where the code *)
(* rounds; a quotient the code leaves unrounded is truncated to the        *)
(* resolution above.                                                       *)
(***************************************************************************)
EXTENDS Integers, Sequences, FiniteSets, TLC

\* ------------------------------------------------------------------------
\* Units
\* ------------------------------------------------------------------------

\* quantity units per token
QtyScale == 1000

\* basis points per 100 %
BpScale == 10000

\* ------------------------------------------------------------------------
\* utils/math.ts
\* ------------------------------------------------------------------------

\* Math.round(a / b) for b > 0: the nearest integer, halves towards +infinity
RoundDiv(a, b) ==
    LET q == a \div b
        r == a % b
    IN  IF 2 * r >= b THEN q + 1 ELSE q

Max(a, b) == IF a >= b THEN a ELSE b

Min(a, b) == IF a <= b THEN a ELSE b

Abs(a) == IF a >= 0 THEN a ELSE -a

\* bpsToDecimal(bps) * value, kept as the exact product over BpScale
\* (the callers round the result themselves)
bpsToDecimalNum(bps, value) == bps * value

\* variant: the capital is not split over the levels
GridLevelAtUnsplit(centre2, spacing10, levels, capitalQ, i, side) ==
    LET sign == IF side = "buy" THEN -1 ELSE 1
        price == RoundDiv(centre2 * (10 * BpScale + sign * spacing10 * i), 20 * BpScale)
    IN  [index    |-> sign * i,
         price    |-> price,
         side     |-> side,
         quantity |-> RoundDiv(capitalQ, price),
         filled   |-> FALSE]

\* one grid level built by calculateGridLevels for offset i (1..levels) on a side;
\* spacing is given in 1/10 bp so that the 1.2 x ATR target spacing is exact;
\* centre2 is twice the centre price (the midpoint of two prices can be a half cent)
GridLevelAt(centre2, spacing10, levels, capitalQ, i, side) ==
    LET sign == IF side = "buy" THEN -1 ELSE 1
        price == RoundDiv(centre2 * (10 * BpScale + sign * spacing10 * i), 20 * BpScale)
    IN  [index    |-> sign * i,
         price    |-> price,
         side     |-> side,
         quantity |-> RoundDiv(capitalQ, levels * price),
         filled   |-> FALSE]

\* level x put into the price-sorted s behind every level that is not dearer
RECURSIVE InsertByPrice(_, _)
InsertByPrice(s, x) ==
    IF s = << >> THEN << x >>
    ELSE IF s[Len(s)].price <= x.price THEN Append(s, x)
    ELSE Append(InsertByPrice(SubSeq(s, 1, Len(s) - 1), x), s[Len(s)])

\* grid.sort((a, b) => a.price - b.price): ascending by price, equal prices keep
\* their order (Array.prototype.sort is stable)
RECURSIVE SortByPrice(_)
SortByPrice(s) ==
    IF s = << >> THEN << >>
    ELSE InsertByPrice(SortByPrice(SubSeq(s, 1, Len(s) - 1)), s[Len(s)])

\* calculateGridLevels(centerPrice, spacingPct, levels, totalCapital): the buy
\* levels -1 .. -levels, then the sell levels 1 .. levels, sorted ascending by
\* price; capitalQ is totalCapital in cents times QtyScale
calculateGridLevels(centre2, spacing10, levels, capitalQ) ==
    SortByPrice([k \in 1..(2 * levels) |->
        IF k <= levels
        THEN GridLevelAt(centre2, spacing10, levels, capitalQ, k, "buy")
        ELSE GridLevelAt(centre2, spacing10, levels, capitalQ, k - levels, "sell")])

\* variant: every trade is valued as a short
calculatePnLShort(side, entryPrice, exitPrice, quantity, fees) ==
    RoundDiv((entryPrice - exitPrice) * quantity - fees * QtyScale, QtyScale)

\* variant: the fees are not deducted
calculatePnLGross(side, entryPrice, exitPrice, quantity, fees) ==
    IF side = "buy"
    THEN RoundDiv((exitPrice - entryPrice) * quantity, QtyScale)
    ELSE RoundDiv((entryPrice - exitPrice) * quantity, QtyScale)

\* calculatePnL(side, entryPrice, exitPrice, quantity, fees).pnl, rounded as the
\* code rounds it (roundTo(pnl, 6))
calculatePnL(side, entryPrice, exitPrice, quantity, fees) ==
    LET rawQ == IF side = "buy"
                THEN (exitPrice - entryPrice) * quantity
                ELSE (entryPrice - exitPrice) * quantity
    IN  RoundDiv(rawQ - fees * QtyScale, QtyScale)

\* ------------------------------------------------------------------------
\* config/risk-profiles.ts
\* ------------------------------------------------------------------------

\* RISK_PROFILES[tier]; percentages in whole percent except gridSpacingMinPct,
\* which is in basis points (0.5 % = 50)
RISK_PROFILES ==
    [low    |-> [maxDrawdownPct |-> 5,  maxPositionPct |-> 10, maxOpenPositions |-> 5,
                 dailyLossLimitPct |-> 3, gridSpacingMinPct |-> 50, maxSlippageBps |-> 50],
     medium |-> [maxDrawdownPct |-> 10, maxPositionPct |-> 20, maxOpenPositions |-> 8,
                 dailyLossLimitPct |-> 5, gridSpacingMinPct |-> 30, maxSlippageBps |-> 75],
     high   |-> [maxDrawdownPct |-> 15, maxPositionPct |-> 30, maxOpenPositions |-> 12,
                 dailyLossLimitPct |-> 8, gridSpacingMinPct |-> 20, maxSlippageBps |-> 100]]

getRiskProfile(tier) == RISK_PROFILES[tier]

\* ------------------------------------------------------------------------
\* agents/optimizer/risk-engine.ts
\* ------------------------------------------------------------------------

\* the value of an absent adjustedQuantity
NoQuantity == -1

\* variant: an order exactly at the position limit counts as exceeding it
ExceedsPositionLimitAtCap(profile, order, state) ==
    order.price * order.quantity
        >= state.totalCapital * profile.maxPositionPct * (QtyScale \div 100)

\* order.price * order.quantity > state.totalCapital * (maxPositionPct / 100),
\* both sides multiplied by QtyScale
ExceedsPositionLimit(profile, order, state) ==
    order.price * order.quantity
        > state.totalCapital * profile.maxPositionPct * (QtyScale \div 100)

\* RiskEngine.checkTradeAllowed(order, state) for the engine's profile
checkTradeAllowed(profile, order, state) ==
    IF state.currentDrawdownPct >= profile.maxDrawdownPct * 100
    THEN [allowed |-> FALSE, reason |-> "Kill switch: max drawdown exceeded",
          adjustedQuantity |-> NoQuantity]
    ELSE IF state.dailyPnlPct <= -(profile.dailyLossLimitPct * 100)
    THEN [allowed |-> FALSE, reason |-> "Daily loss limit hit",
          adjustedQuantity |-> NoQuantity]
    ELSE IF state.openPositionCount >= profile.maxOpenPositions
    THEN [allowed |-> FALSE, reason |-> "Max open positions reached",
          adjustedQuantity |-> NoQuantity]
    ELSE IF ExceedsPositionLimit(profile, order, state)
    THEN [allowed |-> TRUE, reason |-> "Position size adjusted to fit max position limit",
          adjustedQuantity |->
              (state.totalCapital * profile.maxPositionPct * (QtyScale \div 100))
                  \div order.price]
    ELSE [allowed |-> TRUE, reason |-> "All risk checks passed",
          adjustedQuantity |-> NoQuantity]

\* variant: the daily loss limit is tested before the drawdown
checkKillSwitchDailyFirst(profile, state) ==
    IF state.dailyPnlPct <= -(profile.dailyLossLimitPct * 100)
    THEN [triggered |-> TRUE, action |-> "exit_all"]
    ELSE IF state.currentDrawdownPct >= profile.maxDrawdownPct * 100
    THEN [triggered |-> TRUE, action |-> "shutdown"]
    ELSE IF state.currentDrawdownPct >= profile.maxDrawdownPct * 80
    THEN [triggered |-> TRUE, action |-> "pause"]
    ELSE [triggered |-> FALSE, action |-> "none"]

\* RiskEngine.checkKillSwitch(state) for the engine's profile
checkKillSwitch(profile, state) ==
    IF state.currentDrawdownPct >= profile.maxDrawdownPct * 100
    THEN [triggered |-> TRUE, action |-> "shutdown"]
    ELSE IF state.currentDrawdownPct >= profile.maxDrawdownPct * 80
    THEN [triggered |-> TRUE, action |-> "pause"]
    ELSE IF state.dailyPnlPct <= -(profile.dailyLossLimitPct * 100)
    THEN [triggered |-> TRUE, action |-> "exit_all"]
    ELSE [triggered |-> FALSE, action |-> "none"]

\* ------------------------------------------------------------------------
\* agents/optimizer/grid-calculator.ts
\* ------------------------------------------------------------------------

\* calculateGrid(currentPrice, config.grid); gridSpacingPct is in basis points
calculateGrid(currentPrice, grid) ==
    calculateGridLevels(2 * currentPrice, 10 * grid.gridSpacingPct, grid.gridLevels,
                        grid.capitalUsd * QtyScale)

\* greatest / least price among the levels of one side
SidePrices(grid, side) == {grid[k].price : k \in {j \in DOMAIN grid : grid[j].side = side}}

MaxOf(S) == CHOOSE x \in S : \A y \in S : y <= x

MinOf(S) == CHOOSE x \in S : \A y \in S : x <= y

\* sum over the buy levels of price * quantity (cents times QtyScale)
RECURSIVE BuyCapitalQ(_, _)
BuyCapitalQ(grid, k) ==
    IF k = 0 THEN 0
    ELSE BuyCapitalQ(grid, k - 1)
         + (IF grid[k].side = "buy" THEN grid[k].price * grid[k].quantity ELSE 0)

\* targetSpacing = Math.max(atrPct * 1.2, minSpacing), in 1/10 bp
\* (atrPct and minSpacing in basis points)
TargetSpacing10(atrPct, minSpacing) == Max(atrPct * 12, minSpacing * 10)

\* variant: a target equal to the current spacing also regenerates
SpacingAdequateStrict(grid, atrPct, minSpacing) ==
    IF Len(grid) >= 2
    THEN TargetSpacing10(atrPct, minSpacing) * grid[1].price
             < (grid[2].price - grid[1].price) * 10 * BpScale
    ELSE TargetSpacing10(atrPct, minSpacing) < 0

\* targetSpacing <= currentSpacing, where currentSpacing is measured on the two
\* lowest-priced levels (0 when there is only one); the grid is kept sorted by
\* calculateGridLevels, so sorted[0], sorted[1] are grid[1], grid[2]
SpacingAdequate(grid, atrPct, minSpacing) ==
    IF Len(grid) >= 2
    THEN TargetSpacing10(atrPct, minSpacing) * grid[1].price
             <= (grid[2].price - grid[1].price) * 10 * BpScale
    ELSE TargetSpacing10(atrPct, minSpacing) <= 0

\* variant: every call regenerates, around the lowest sell
adjustGridForVolatilityCreeping(grid, atrPct, minSpacing) ==
    IF Len(grid) = 0 THEN grid
    ELSE IF SidePrices(grid, "buy") = {} \/ SidePrices(grid, "sell") = {} THEN grid
    ELSE calculateGridLevels(
             2 * MinOf(SidePrices(grid, "sell")),
             TargetSpacing10(atrPct, minSpacing),
             Len(grid) \div 2,
             BuyCapitalQ(grid, Len(grid)))

\* adjustGridForVolatility(grid, atrPct, minSpacing)
adjustGridForVolatility(grid, atrPct, minSpacing) ==
    IF Len(grid) = 0 THEN grid
    ELSE IF SpacingAdequate(grid, atrPct, minSpacing) THEN grid
    ELSE IF SidePrices(grid, "buy") = {} \/ SidePrices(grid, "sell") = {} THEN grid
    ELSE calculateGridLevels(
             MaxOf(SidePrices(grid, "buy")) + MinOf(SidePrices(grid, "sell")),
             TargetSpacing10(atrPct, minSpacing),
             Len(grid) \div 2,
             BuyCapitalQ(grid, Len(grid)))

\* ------------------------------------------------------------------------
\* agents/optimizer/breakout-detector.ts
\* ------------------------------------------------------------------------

RECURSIVE SumSeq(_, _)
SumSeq(s, k) == IF k = 0 THEN 0 ELSE SumSeq(s, k - 1) + s[k]

RECURSIVE SumSqSeq(_, _)
SumSqSeq(s, k) == IF k = 0 THEN 0 ELSE SumSqSeq(s, k - 1) + s[k] * s[k]

\* calculateBollinger(closes, period, 2) without the square root: with n = period,
\* sum = n * mean and varN2 = n^2 * variance (population variance, divide by N)
calculateBollinger(closes, period) ==
    [sum   |-> SumSeq(closes, Len(closes)),
     varN2 |-> period * SumSqSeq(closes, Len(closes))
                 - SumSeq(closes, Len(closes)) * SumSeq(closes, Len(closes))]

\* bandwidth = (upper - lower) / mean = 4 * stdDev / mean; bandwidth >= 0.04
\* is 100 * n * stdDev >= n * mean, squared: 10000 * varN2 >= sum^2, written
\* without the product by 10000
NoSqueeze(bb) == bb.varN2 > (bb.sum * bb.sum - 1) \div 10000

\* close > upper = mean + 2 * stdDev, multiplied by n and squared
AboveUpper(bb, period, close) ==
    /\ period * close - bb.sum > 0
    /\ (period * close - bb.sum) * (period * close - bb.sum) > 4 * bb.varN2

\* close < lower = mean - 2 * stdDev
BelowLower(bb, period, close) ==
    /\ bb.sum - period * close > 0
    /\ (bb.sum - period * close) * (bb.sum - period * close) > 4 * bb.varN2

\* detectBreakout(candles, params): "none" (null) or the direction. closes holds
\* the last `lookback` closes, count the number of candles kept. The Optimizer
\* builds every candle with volume 0, so latest.volume < avgVolume * multiplier
\* is 0 < 0 and the volume test never returns null.
detectBreakout(closes, count, lookback) ==
    IF count < lookback + 1 THEN "none"
    ELSE LET bb == calculateBollinger(closes, lookback)
             close == closes[Len(closes)]
         IN  IF NoSqueeze(bb) THEN "none"
             ELSE IF AboveUpper(bb, lookback, close) THEN "long"
             ELSE IF BelowLower(bb, lookback, close) THEN "short"
             ELSE "none"

\* ------------------------------------------------------------------------
\* agents/executor/paper-simulator.ts
\* ------------------------------------------------------------------------

\* Jupiter-like maker/taker fee (0.25%)
FEE_BPS == 25

\* variant: the slippage is applied in the favourable direction
simulateFillFavourable(order, random10) ==
    [orderId      |-> order.orderId,
     fillPrice    |-> RoundDiv(order.price * (10 * BpScale
                         - (IF order.action = "buy" THEN 1 ELSE -1)
                           * Abs(random10 - 5) * order.slippageBps), 10 * BpScale),
     fillQuantity |-> order.quantity,
     fee          |-> 0]

\* variant: half of the order is filled
simulateFillHalf(order, random10) ==
    [orderId      |-> order.orderId,
     fillPrice    |-> order.price,
     fillQuantity |-> order.quantity \div 2,
     fee          |-> 0]

\* simulateFill(order) for the draw Math.random() = random10 / 10
simulateFill(order, random10) ==
    LET \* |slippageDec| * 10 * BpScale
        absSlip10 == Abs(random10 - 5) * order.slippageBps
        direction == IF order.action = "buy" THEN 1 ELSE -1
        fillPrice == RoundDiv(order.price * (10 * BpScale + direction * absSlip10),
                              10 * BpScale)
    IN  [orderId      |-> order.orderId,
         fillPrice    |-> fillPrice,
         fillQuantity |-> order.quantity,
         fee          |-> RoundDiv(bpsToDecimalNum(FEE_BPS, fillPrice * order.quantity),
                                   BpScale * QtyScale)]

\* new PaperPortfolio(initialCapital)
NewPortfolio(initialCapital) ==
    [initialCapital    |-> initialCapital,
     currentCapital    |-> initialCapital,
     peakCapital       |-> initialCapital,
     openPositions     |-> << >>,
     dailyPnl          |-> 0,
     dailyStartCapital |-> initialCapital,
     tradeCount        |-> 0,
     winCount          |-> 0]

\* variant: no open position is ever matched
FindOppositeNever(positions, action, k) == 0

\* variant: the opposite-side position opened last is matched
FindOppositeLast(positions, action, k) ==
    IF \E j \in DOMAIN positions : positions[j].side # action
    THEN CHOOSE j \in DOMAIN positions :
             /\ positions[j].side # action
             /\ \A i \in DOMAIN positions : positions[i].side # action => i <= j
    ELSE 0

\* openPositions.findIndex(p => p.side !== order.action); 0 stands for -1
RECURSIVE FindOpposite(_, _, _)
FindOpposite(positions, action, k) ==
    IF k > Len(positions) THEN 0
    ELSE IF positions[k].side # action THEN k
    ELSE FindOpposite(positions, action, k + 1)

\* openPositions.splice(entryIdx, 1)
Splice(s, k) == [j \in 1..(Len(s) - 1) |-> IF j < k THEN s[j] ELSE s[j + 1]]

\* PaperPortfolio.openPosition(order, fill)
openPosition(pf, order, fill) ==
    [pf EXCEPT !.openPositions =
        Append(@, [orderId  |-> fill.orderId,
                   side     |-> order.action,
                   price    |-> fill.fillPrice,
                   quantity |-> fill.fillQuantity,
                   fee      |-> fill.fee])]

\* the pnl closePosition(entryIdx, exitOrder, exitFill) realizes
ClosePnl(pf, entryIdx, exitFill) ==
    LET entry == pf.openPositions[entryIdx]
    IN  calculatePnL(entry.side, entry.price, exitFill.fillPrice,
                     Min(entry.quantity, exitFill.fillQuantity),
                     entry.fee + exitFill.fee)

\* calculatePnL(..).pnlPct of the close, in bp: the unrounded pnl over the entry
\* notional, rounded to two decimals of a percent
ClosePnlPct(pf, entryIdx, exitFill) ==
    LET entry == pf.openPositions[entryIdx]
        qty   == Min(entry.quantity, exitFill.fillQuantity)
        rawQ  == IF entry.side = "buy"
                 THEN (exitFill.fillPrice - entry.price) * qty
                 ELSE (entry.price - exitFill.fillPrice) * qty
    IN  RoundDiv((rawQ - (entry.fee + exitFill.fee) * QtyScale) * BpScale,
                 entry.price * qty)

\* the ClosedTrade closePosition(entryIdx, exitOrder, exitFill) returns
ClosedTrade(pf, entryIdx, exitFill) ==
    LET entry == pf.openPositions[entryIdx]
    IN  [entryOrderId |-> entry.orderId,
         exitOrderId  |-> exitFill.orderId,
         side         |-> entry.side,
         entryPrice   |-> entry.price,
         exitPrice    |-> exitFill.fillPrice,
         quantity     |-> Min(entry.quantity, exitFill.fillQuantity),
         pnl          |-> ClosePnl(pf, entryIdx, exitFill),
         pnlPct       |-> ClosePnlPct(pf, entryIdx, exitFill),
         fees         |-> entry.fee + exitFill.fee]

\* variant: the peak is left where it was
closePositionStalePeak(pf, entryIdx, exitFill) ==
    LET pnl == ClosePnl(pf, entryIdx, exitFill)
    IN  [pf EXCEPT !.currentCapital = @ + pnl,
                   !.dailyPnl       = @ + pnl,
                   !.tradeCount     = @ + 1,
                   !.winCount       = IF pnl > 0 THEN @ + 1 ELSE @,
                   !.openPositions  = Splice(@, entryIdx)]

\* PaperPortfolio.closePosition(entryIdx, exitOrder, exitFill): the portfolio after it
closePosition(pf, entryIdx, exitFill) ==
    LET pnl == ClosePnl(pf, entryIdx, exitFill)
    IN  [pf EXCEPT !.currentCapital = @ + pnl,
                   !.dailyPnl       = @ + pnl,
                   !.peakCapital    = IF pf.currentCapital + pnl > @
                                      THEN pf.currentCapital + pnl ELSE @,
                   !.tradeCount     = @ + 1,
                   !.winCount       = IF pnl > 0 THEN @ + 1 ELSE @,
                   !.openPositions  = Splice(@, entryIdx)]

\* PaperPortfolio.processExecution(order, fill): the portfolio after it
processExecution(pf, order, fill) ==
    IF FindOpposite(pf.openPositions, order.action, 1) # 0
    THEN closePosition(pf, FindOpposite(pf.openPositions, order.action, 1), fill)
    ELSE openPosition(pf, order, fill)

\* what processExecution(order, fill) returns: << the ClosedTrade >>, or << >>
\* for null
processExecutionResult(pf, order, fill) ==
    IF FindOpposite(pf.openPositions, order.action, 1) # 0
    THEN << ClosedTrade(pf, FindOpposite(pf.openPositions, order.action, 1), fill) >>
    ELSE << >>

RECURSIVE OpenValueQ(_, _)
OpenValueQ(positions, k) ==
    IF k = 0 THEN 0
    ELSE OpenValueQ(positions, k - 1) + positions[k].price * positions[k].quantity

\* PaperPortfolio.getState(): the PortfolioState snapshot (percentages in bp)
getState(pf) ==
    [totalCapital       |-> pf.currentCapital,
     currentDrawdownPct |->
         IF pf.peakCapital > 0
         THEN Max(0, RoundDiv((pf.peakCapital - pf.currentCapital) * BpScale,
                              pf.peakCapital))
         ELSE 0,
     dailyPnlPct        |->
         IF pf.dailyStartCapital > 0
         THEN RoundDiv(pf.dailyPnl * BpScale, pf.dailyStartCapital)
         ELSE 0,
     openPositionCount  |-> Len(pf.openPositions),
     openPositionValue  |-> RoundDiv(OpenValueQ(pf.openPositions, Len(pf.openPositions)),
                                     QtyScale)]

\* PaperPortfolio.resetDailyPnl()
resetDailyPnl(pf) ==
    [pf EXCEPT !.dailyPnl = 0, !.dailyStartCapital = pf.currentCapital]

\* ------------------------------------------------------------------------
\* State
\* ------------------------------------------------------------------------

VARIABLES
    config,          \* BotConfig: grid, strategy, riskProfile, paperTradeMode
    env,             \* what the surroundings may do: the signal feed, the random
                     \* draws, how many commands and date rollovers occur
    sigCount,        \* signals delivered to the Optimizer so far
    \* Optimizer (startOptimizerAgent)
    optPaused,       \* let paused
    recentCandles,   \* state.recentCandles: the closes, newest last
    candleCount,     \* state.recentCandles.length
    grids,           \* every array state.currentGrid has pointed to; the last is
                     \* state.currentGrid, earlier ones live on in suspended loops
    portfolioState,  \* state.portfolioState
    optPending,      \* the Optimizer's suspended handlers, in the order their
                     \* awaited replies arrive (one connection, FIFO)
    \* bus and shared store
    orders,          \* grid:orders, published and not yet delivered
    executions,      \* grid:executions, published and not yet delivered to the Optimizer
    optCommands,     \* grid:commands, not yet delivered to the Optimizer
    exeCommands,     \* grid:commands, not yet delivered to the Executor
    alerts,          \* the actions of the risk alerts published on grid:risk-alerts
    redisPortfolio,  \* hash grid-bot:portfolio, field portfolio
    nextOrderId,     \* stands for randomUUID(): a fresh id per order
    \* Executor (startExecutorAgent)
    exePaused,       \* let paused
    portfolio,       \* the PaperPortfolio
    exePending,      \* order handlers suspended at await bus.publish(EXECUTIONS)
    \* bookkeeping for the properties (no code reads it)
    fillCount,       \* fills processed by the portfolio
    redisFills,      \* fillCount at the time redisPortfolio was written
    recvLog,         \* the orders delivered to the Executor, with its paused flag
    execLog,         \* the executions published
    pausedSigs,      \* the signals whose handling began while the Optimizer was paused
    call             \* a function applied on its own: its name, arguments and result

vars == <<config, env, sigCount, optPaused, recentCandles, candleCount, grids,
          portfolioState, optPending, orders, executions, optCommands, exeCommands,
          alerts, redisPortfolio, nextOrderId, exePaused, portfolio, exePending,
          fillCount, redisFills, recvLog, execLog, pausedSigs, call>>

\* the pipeline's variables
pipeVars == <<config, env, sigCount, optPaused, recentCandles, candleCount, grids,
              portfolioState, optPending, orders, executions, optCommands, exeCommands,
              alerts, redisPortfolio, nextOrderId, exePaused, portfolio, exePending,
              fillCount, redisFills, recvLog, execLog, pausedSigs>>

optVars == <<optPaused, recentCandles, candleCount, grids, portfolioState, optPending>>

exeVars == <<exePaused, portfolio, exePending, fillCount>>

\* state.recentCandles keeps the last 100 candles
CandleWindow == 100

riskProfile == getRiskProfile(config.riskProfile)

\* state.currentGrid
currentGrid == grids[Len(grids)]

\* suspended signal handlers
SignalHandlers(pending) == {k \in DOMAIN pending : pending[k].kind \in {"grid", "breakout"}}

\* an old grid array is kept only while a suspended loop still iterates it
KeepGrids(gs, pending) ==
    [g \in DOMAIN gs |->
        IF g = Len(gs) \/ \E k \in DOMAIN pending :
                              pending[k].kind = "grid" /\ pending[k].gen = g
        THEN gs[g] ELSE << >>]

\* ------------------------------------------------------------------------
\* Optimizer: the signal handler, cut at its awaits
\* ------------------------------------------------------------------------

\* the grid loop's test of one level against the signal price
shouldFill(level, price) ==
    \/ level.side = "buy" /\ price <= level.price
    \/ level.side = "sell" /\ price >= level.price

ProposedGridOrder(level) ==
    [action |-> level.side, price |-> level.price, quantity |-> level.quantity]

\* the first level at or after `from` for which the loop publishes an order
\* (unfilled, crossed, allowed by the risk engine); 0 when the loop runs to its end
RECURSIVE NextGridPublish(_, _, _, _)
NextGridPublish(grid, price, state, from) ==
    IF from > Len(grid) THEN 0
    ELSE IF /\ ~grid[from].filled
            /\ shouldFill(grid[from], price)
            /\ checkTradeAllowed(riskProfile, ProposedGridOrder(grid[from]), state).allowed
         THEN from
         ELSE NextGridPublish(grid, price, state, from + 1)

\* variant: the level's quantity is published whatever the risk engine adjusted
GridOrderUnadjusted(level, state, sig) ==
    [orderId     |-> nextOrderId,
     action      |-> level.side,
     price       |-> level.price,
     quantity    |-> level.quantity,
     slippageBps |-> riskProfile.maxSlippageBps,
     strategy    |-> "grid",
     gridLevel   |-> level.index,
     sig         |-> sig,
     checked     |-> state]

\* the OrderMessage of the grid loop for a level
GridOrder(level, state, sig) ==
    LET decision == checkTradeAllowed(riskProfile, ProposedGridOrder(level), state)
    IN  [orderId     |-> nextOrderId,
         action      |-> level.side,
         price       |-> level.price,
         quantity    |-> IF decision.adjustedQuantity # NoQuantity
                         THEN decision.adjustedQuantity ELSE level.quantity,
         slippageBps |-> riskProfile.maxSlippageBps,
         strategy    |-> "grid",
         gridLevel   |-> level.index,
         sig         |-> sig,
         checked     |-> state]

\* the breakout overlay's proposal: 30% of the configured capital at the latest close
ProposedBreakoutOrder(direction, entryPrice) ==
    [action   |-> IF direction = "long" THEN "buy" ELSE "sell",
     price    |-> entryPrice,
     quantity |-> (config.grid.capitalUsd * 3 * (QtyScale \div 10)) \div entryPrice]

\* the OrderMessage of the breakout overlay
BreakoutOrder(direction, entryPrice, state, sig) ==
    LET proposed == ProposedBreakoutOrder(direction, entryPrice)
        decision == checkTradeAllowed(riskProfile, proposed, state)
    IN  [orderId     |-> nextOrderId,
         action      |-> proposed.action,
         price       |-> entryPrice,
         quantity    |-> IF decision.adjustedQuantity # NoQuantity
                         THEN decision.adjustedQuantity ELSE proposed.quantity,
         slippageBps |-> riskProfile.maxSlippageBps,
         strategy    |-> "breakout",
         gridLevel   |-> 0,
         sig         |-> sig,
         checked     |-> state]

\* the end of the signal handler: the kill switch check and its risk alert
KillSwitchAlerts(state) ==
    IF checkKillSwitch(riskProfile, state).triggered
    THEN alerts \cup {checkKillSwitch(riskProfile, state).action}
    ELSE alerts

\* The grid loop from level `from` of grid array `gen`, up to its next await or to
\* the end of the handler. gs, state and pendingRest are the Optimizer's grids,
\* portfolio snapshot and other suspended handlers at this point.
RunGridLoop(gs, gen, from, price, sig, state, pendingRest) ==
    LET k == NextGridPublish(gs[gen], price, state, from)
    IN  IF k # 0
        THEN /\ orders' = Append(orders, GridOrder(gs[gen][k], state, sig))
             /\ nextOrderId' = nextOrderId + 1
             /\ optPending' = Append(pendingRest,
                                     [kind |-> "grid", gen |-> gen, idx |-> k,
                                      price |-> price, sig |-> sig])
             /\ grids' = KeepGrids(gs, optPending')
             /\ alerts' = alerts
        ELSE /\ orders' = orders
             /\ nextOrderId' = nextOrderId
             /\ optPending' = pendingRest
             /\ grids' = KeepGrids(gs, pendingRest)
             /\ alerts' = KillSwitchAlerts(state)

\* state.recentCandles after push and shift, as the closes detectBreakout reads
PushCandle(closes, close, lookback) ==
    LET all == Append(closes, close)
    IN  IF Len(all) > lookback THEN Tail(all) ELSE all

\* the grid after "create if empty" and the volatility adjustment of the handler
GridForSignal(grid, signal) ==
    LET created == IF Len(grid) = 0 THEN calculateGrid(signal.price, config.grid) ELSE grid
    IN  IF signal.atr # 0 /\ signal.atr > config.grid.gridSpacingPct
        THEN adjustGridForVolatility(created, signal.atr, riskProfile.gridSpacingMinPct)
        ELSE created

\* grids after the handler assigned g to state.currentGrid: the same array object
\* when adjustGridForVolatility returned its argument (or the first grid was made)
AssignGrid(gs, g) ==
    IF g = gs[Len(gs)] THEN gs
    ELSE IF Len(gs[Len(gs)]) = 0 THEN [gs EXCEPT ![Len(gs)] = g]
    ELSE Append(gs, g)

\* variant: the loop does not look at its paused flag
SkipsWorkNever(paused) == FALSE

\* if (paused) { log.debug(..); return; } at the head of a handler
SkipsWork(paused) == paused

\* nothing is in flight between the agents
Quiet ==
    /\ optPending = << >>
    /\ orders = << >>
    /\ executions = << >>
    /\ exePending = 0

\* bus.subscribe(CHANNELS.SIGNALS, ...): a signal is delivered and handled up to
\* the handler's first await
Signal(signal) ==
    /\ sigCount < Len(env.feed)
    /\ signal \in env.feed[sigCount + 1]
    /\ Cardinality(SignalHandlers(optPending)) < env.overlap
    /\ sigCount < env.paced => Quiet
    /\ sigCount' = sigCount + 1
    /\ UNCHANGED <<call, config, env, optPaused, portfolioState, executions, optCommands,
                   exeCommands, redisPortfolio, exeVars, redisFills, recvLog, execLog>>
    /\ pausedSigs' = IF optPaused THEN pausedSigs \cup {sigCount + 1} ELSE pausedSigs
    /\ IF SkipsWork(optPaused)
       THEN UNCHANGED <<recentCandles, candleCount, grids, optPending, orders,
                        nextOrderId, alerts>>
       ELSE /\ recentCandles' = PushCandle(recentCandles, signal.price,
                                           config.strategy.breakoutLookback)
            /\ candleCount' = Min(candleCount + 1,
                                  Min(CandleWindow, config.strategy.breakoutLookback + 1))
            /\ LET gs == AssignGrid(grids, GridForSignal(currentGrid, signal))
                   direction ==
                       IF /\ config.grid.breakoutOverlay
                          /\ candleCount' >= config.strategy.breakoutLookback
                       THEN detectBreakout(recentCandles', candleCount',
                                           config.strategy.breakoutLookback)
                       ELSE "none"
               IN  IF direction # "none"
                   THEN IF checkTradeAllowed(riskProfile,
                               ProposedBreakoutOrder(direction, signal.price),
                               portfolioState).allowed
                        THEN /\ orders' = Append(orders,
                                    BreakoutOrder(direction, signal.price,
                                                  portfolioState, sigCount + 1))
                             /\ nextOrderId' = nextOrderId + 1
                             /\ optPending' = Append(optPending,
                                    [kind |-> "breakout", sig |-> sigCount + 1])
                             /\ grids' = KeepGrids(gs, optPending')
                             /\ alerts' = alerts
                        ELSE /\ grids' = KeepGrids(gs, optPending)
                             /\ alerts' = KillSwitchAlerts(portfolioState)
                             /\ UNCHANGED <<orders, nextOrderId, optPending>>
                   ELSE RunGridLoop(gs, Len(gs), 1, signal.price, sigCount + 1,
                                    portfolioState, optPending)

\* state.portfolioState.openPositionCount++
CountOrder(state) == [state EXCEPT !.openPositionCount = @ + 1]

\* A suspended Optimizer handler resumes when the reply it awaits arrives:
\*   read      the executions handler after await bus.getState(..)
\*   breakout  the signal handler after await bus.publish(ORDERS, breakout order)
\*   grid      the signal handler after await bus.publish(ORDERS, grid order)
OptResume ==
    /\ Len(optPending) > 0
    /\ UNCHANGED <<call, config, env, sigCount, optPaused, recentCandles, candleCount,
                   executions, optCommands, exeCommands, redisPortfolio, exeVars,
                   redisFills, recvLog, execLog, pausedSigs>>
    /\ LET h == Head(optPending)
           rest == Tail(optPending)
       IN  CASE h.kind = "read" ->
                  /\ portfolioState' = h.snapshot
                  /\ optPending' = rest
                  /\ grids' = KeepGrids(grids, rest)
                  /\ UNCHANGED <<orders, nextOrderId, alerts>>
             [] h.kind = "breakout" ->
                  /\ portfolioState' = CountOrder(portfolioState)
                  /\ optPending' = rest
                  /\ grids' = KeepGrids(grids, rest)
                  /\ alerts' = KillSwitchAlerts(portfolioState')
                  /\ UNCHANGED <<orders, nextOrderId>>
             [] h.kind = "grid" ->
                  /\ portfolioState' = CountOrder(portfolioState)
                  /\ RunGridLoop([grids EXCEPT ![h.gen][h.idx].filled = TRUE],
                                 h.gen, h.idx + 1, h.price, h.sig,
                                 portfolioState', rest)

\* bus.subscribe(CHANNELS.EXECUTIONS, ...): an execution is delivered; the handler
\* requests the snapshot (HGET) and suspends until the reply
OptExecution ==
    /\ Len(executions) > 0
    /\ executions' = Tail(executions)
    /\ optPending' = IF Head(executions).status = "confirmed"
                     THEN Append(optPending,
                                 [kind |-> "read", snapshot |-> redisPortfolio,
                                  fillNo |-> Head(executions).fillNo,
                                  fillsRead |-> redisFills])
                     ELSE optPending
    /\ UNCHANGED <<call, config, env, sigCount, optPaused, recentCandles, candleCount, grids,
                   portfolioState, orders, optCommands, exeCommands, alerts,
                   redisPortfolio, nextOrderId, exeVars, redisFills, recvLog, execLog,
                   pausedSigs>>

\* the pause/resume handler shared by both agents: the new value of `paused`
HandleCommand(paused, command) ==
    IF command = "pause" THEN TRUE
    ELSE IF command = "resume" THEN FALSE
    ELSE paused

\* bus.subscribe(CHANNELS.COMMANDS, ...) of the Optimizer
OptCommand ==
    /\ Len(optCommands) > 0
    /\ optPaused' = HandleCommand(optPaused, Head(optCommands))
    /\ optCommands' = Tail(optCommands)
    /\ UNCHANGED <<call, config, env, sigCount, recentCandles, candleCount, grids,
                   portfolioState, optPending, orders, executions, exeCommands, alerts,
                   redisPortfolio, nextOrderId, exeVars, redisFills, recvLog, execLog,
                   pausedSigs>>

\* ------------------------------------------------------------------------
\* Executor
\* ------------------------------------------------------------------------

\* bus.subscribe(CHANNELS.COMMANDS, ...) of the Executor
ExeCommand ==
    /\ Len(exeCommands) > 0
    /\ exePaused' = HandleCommand(exePaused, Head(exeCommands))
    /\ exeCommands' = Tail(exeCommands)
    /\ UNCHANGED <<call, config, env, sigCount, optVars, orders, executions, optCommands,
                   alerts, redisPortfolio, nextOrderId, portfolio, exePending, fillCount,
                   redisFills, recvLog, execLog, pausedSigs>>

\* the ExecutionMessage published for a paper fill
ExecutionFor(order, fill, fillNo) ==
    [orderId      |-> order.orderId,
     status       |-> "confirmed",
     fillPrice    |-> fill.fillPrice,
     fillQuantity |-> fill.fillQuantity,
     fees         |-> fill.fee,
     fillNo       |-> fillNo]

\* bus.subscribe(CHANNELS.ORDERS, ...): an order is delivered and handled up to
\* await bus.publish(EXECUTIONS, execution); random10 is the draw of simulateFill
ExeOrder(random10) ==
    /\ Len(orders) > 0
    /\ orders' = Tail(orders)
    /\ recvLog' = Append(recvLog, [orderId   |-> Head(orders).orderId,
                                   quantity  |-> Head(orders).quantity,
                                   strategy  |-> Head(orders).strategy,
                                   gridLevel |-> Head(orders).gridLevel,
                                   paused    |-> exePaused])
    /\ UNCHANGED <<call, config, env, sigCount, optVars, optCommands, exeCommands, alerts,
                   redisPortfolio, nextOrderId, exePaused, redisFills, pausedSigs>>
    /\ IF ~SkipsWork(exePaused) /\ config.paperTradeMode
       THEN LET fill == simulateFill(Head(orders), random10)
            IN  /\ portfolio' = processExecution(portfolio, Head(orders), fill)
                /\ fillCount' = fillCount + 1
                /\ executions' = Append(executions,
                                        ExecutionFor(Head(orders), fill, fillCount'))
                /\ execLog' = Append(execLog,
                                     ExecutionFor(Head(orders), fill, fillCount'))
                /\ exePending' = exePending + 1
       ELSE UNCHANGED <<portfolio, fillCount, executions, execLog, exePending>>

\* the order handler resumes after the publish and persists the portfolio:
\* await bus.setState(REDIS_KEY, 'portfolio', portfolio.getState())
ExePersist ==
    /\ exePending > 0
    /\ exePending' = exePending - 1
    /\ redisPortfolio' = getState(portfolio)
    /\ redisFills' = fillCount
    /\ UNCHANGED <<call, config, env, sigCount, optVars, orders, executions, optCommands,
                   exeCommands, alerts, nextOrderId, exePaused, portfolio, fillCount,
                   recvLog, execLog, pausedSigs>>

\* the midnight timer finds a new UTC date: portfolio.resetDailyPnl()
Midnight ==
    /\ env.midnights > 0
    /\ sigCount >= env.warmup
    /\ env.calm => Quiet
    /\ env' = [env EXCEPT !.midnights = @ - 1]
    /\ portfolio' = resetDailyPnl(portfolio)
    /\ UNCHANGED <<call, config, sigCount, optVars, orders, executions, optCommands,
                   exeCommands, alerts, redisPortfolio, nextOrderId, exePaused,
                   exePending, fillCount, redisFills, recvLog, execLog, pausedSigs>>

\* a CommandMessage is published on grid:commands; both agents are subscribed
Command(command) ==
    /\ env.commands > 0
    /\ sigCount >= env.warmup
    /\ env.calm => Quiet
    /\ env' = [env EXCEPT !.commands = @ - 1]
    /\ optCommands' = Append(optCommands, command)
    /\ exeCommands' = Append(exeCommands, command)
    /\ UNCHANGED <<call, config, sigCount, optVars, orders, executions, alerts,
                   redisPortfolio, nextOrderId, exeVars, redisFills, recvLog, execLog,
                   pausedSigs>>

\* ------------------------------------------------------------------------
\* Configurations and surroundings
\* ------------------------------------------------------------------------

\* the asset's price when the bot starts, in cents
CentrePrice == 1000

\* config.grid.capitalUsd, in cents
Capital == 100000

\* config.strategy.breakoutLookback: the shortest window in which one close can
\* lie more than two standard deviations from the mean
Lookback == 6

\* signals delivered after the candle window has filled
MaxFreeSignals == 2

\* commands published
MaxCommands == 1

\* UTC date rollovers
MaxMidnights == 1

\* signal handlers the bus lets run at the same time
MaxOverlap == 1

BotConfig(levels, tier, paper) ==
    [grid     |-> [gridLevels |-> levels, gridSpacingPct |-> 100,
                   capitalUsd |-> Capital, breakoutOverlay |-> TRUE],
     strategy |-> [breakoutLookback |-> Lookback],
     riskProfile    |-> tier,
     paperTradeMode |-> paper]

Sig(price, atr) == [price |-> price, atr |-> atr]

\* a feed of n signals, each drawn from S
Repeat(S, n) == [k \in 1..n |-> S]

\* the pipeline after construction
InitPipeline(cfg, surroundings) ==
    /\ config = cfg
    /\ env = surroundings
    /\ sigCount = 0
    /\ optPaused = FALSE
    /\ recentCandles = << >>
    /\ candleCount = 0
    /\ grids = << << >> >>
    /\ portfolioState = [totalCapital |-> cfg.grid.capitalUsd, currentDrawdownPct |-> 0,
                         dailyPnlPct |-> 0, openPositionCount |-> 0,
                         openPositionValue |-> 0]
    /\ optPending = << >>
    /\ orders = << >>
    /\ executions = << >>
    /\ optCommands = << >>
    /\ exeCommands = << >>
    /\ alerts = {}
    /\ redisPortfolio = getState(NewPortfolio(cfg.grid.capitalUsd))
    /\ nextOrderId = 1
    /\ exePaused = FALSE
    /\ portfolio = NewPortfolio(cfg.grid.capitalUsd)
    /\ exePending = 0
    /\ fillCount = 0
    /\ redisFills = 0
    /\ recvLog = << >>
    /\ execLog = << >>
    /\ pausedSigs = {}

InitWith(cfg, surroundings) ==
    /\ InitPipeline(cfg, surroundings)
    /\ call = [fn |-> "none"]

\* the draws of Math.random() tried, in tenths: 0 gives the largest slippage
RandomDraws == {0}

Next ==
    \/ \E signal \in UNION {env.feed[k] : k \in DOMAIN env.feed} : Signal(signal)
    \/ OptResume
    \/ OptExecution
    \/ OptCommand
    \/ ExeCommand
    \/ \E random10 \in env.draws : ExeOrder(random10)
    \/ ExePersist
    \/ Midnight
    \/ \E command \in {"pause", "resume"} : Command(command)

\* The pipeline with a plateau that fills the candle window, then free signals.
\* env.paced: the first signals arrive with nothing in flight; env.warmup: no
\* command and no date rollover before that many signals; env.calm: commands and
\* date rollovers occur only with nothing in flight
FreeFeed ==
    <<{Sig(CentrePrice, 0)}>>
    \o Repeat({Sig(CentrePrice + 20, 0)}, Lookback - 1)
    \o Repeat({Sig(CentrePrice + 25, 0), Sig(CentrePrice - 20, 0),
               Sig(CentrePrice + 20, 150)}, MaxFreeSignals)

Init ==
    InitWith(BotConfig(2, "low", TRUE),
             [feed |-> FreeFeed, draws |-> RandomDraws, commands |-> MaxCommands,
              midnights |-> MaxMidnights, overlap |-> MaxOverlap,
              paced |-> Lookback, warmup |-> Lookback, calm |-> FALSE])

Spec == Init /\ [][Next]_vars

\* ------------------------------------------------------------------------
\* The risk engine applied on its own
\* ------------------------------------------------------------------------

\* currentDrawdownPct tried, in bp: around 80 % and 100 % of each profile's limit
DrawdownInputs == {0, 399, 400, 450, 499, 500, 501, 800, 1000, 1200, 1500}

\* dailyPnlPct tried, in bp: around each profile's daily loss limit
DailyPnlInputs == {-800, -500, -350, -301, -300, -299, 0, 120}

\* openPositionCount tried: around each profile's maxOpenPositions
CountInputs == {0, 4, 5, 8, 12}

\* totalCapital tried, in cents
CapitalInputs == {Capital, Capital - 5000}

\* proposed orders tried: below, at and above the position limits
OrderInputs ==
    [action : {"buy"}, price : {1000, 3000},
     quantity : {QtyScale, 10 * QtyScale, 11 * QtyScale, 40 * QtyScale}]

StateInputs ==
    [totalCapital : CapitalInputs, currentDrawdownPct : DrawdownInputs,
     dailyPnlPct : DailyPnlInputs, openPositionCount : CountInputs,
     openPositionValue : {0}]

NoSurroundings ==
    [feed |-> << >>, draws |-> {}, commands |-> 0, midnights |-> 0, overlap |-> 0,
     paced |-> 0, warmup |-> 0, calm |-> FALSE]

InitRisk ==
    /\ InitPipeline(BotConfig(2, "low", TRUE), NoSurroundings)
    /\ call \in [fn : {"input"}, tier : {"low", "medium", "high"},
                 state : StateInputs, order : OrderInputs]

\* new RiskEngine(tier).checkTradeAllowed(order, state)
CallCheckTradeAllowed ==
    /\ call.fn = "input"
    /\ call' = [fn |-> "checkTradeAllowed", tier |-> call.tier, state |-> call.state,
                order |-> call.order,
                result |-> checkTradeAllowed(getRiskProfile(call.tier), call.order,
                                             call.state)]
    /\ UNCHANGED pipeVars

\* new RiskEngine(tier).checkKillSwitch(state)
CallCheckKillSwitch ==
    /\ call.fn = "input"
    /\ call' = [fn |-> "checkKillSwitch", tier |-> call.tier, state |-> call.state,
                order |-> call.order,
                result |-> checkKillSwitch(getRiskProfile(call.tier), call.state)]
    /\ UNCHANGED pipeVars

NextRisk ==
    \/ CallCheckTradeAllowed
    \/ CallCheckKillSwitch

SpecRisk == InitRisk /\ [][NextRisk]_vars

\* the limits of the profile a call was made with
CallProfile == getRiskProfile(call.tier)

DrawdownHit == call.state.currentDrawdownPct >= CallProfile.maxDrawdownPct * 100

DailyLossHit == call.state.dailyPnlPct <= -(CallProfile.dailyLossLimitPct * 100)

C4_DailyLossExitsAll ==
    (call.fn = "checkKillSwitch" /\ DailyLossHit /\ ~DrawdownHit)
        => (call.result.triggered /\ call.result.action = "exit_all")

\* the position cap of a call, totalCapital * maxPositionPct / 100, in cents
\* times QtyScale
CallCapQ == call.state.totalCapital * CallProfile.maxPositionPct * (QtyScale \div 100)

\* none of the three limits of checkTradeAllowed is hit
CallLimitsClear ==
    /\ ~DrawdownHit
    /\ ~DailyLossHit
    /\ call.state.openPositionCount < CallProfile.maxOpenPositions

\* C6: with no limit hit, an order whose notional exceeds the cap is allowed with
\* adjustedQuantity = cap / price, strictly less than the requested quantity; an
\* order within the cap is allowed with no adjustedQuantity
C6_AdjustToCap ==
    (call.fn = "checkTradeAllowed" /\ CallLimitsClear)
        => IF call.order.price * call.order.quantity > CallCapQ
           THEN /\ call.result.allowed
                /\ call.result.adjustedQuantity = CallCapQ \div call.order.price
                /\ call.result.adjustedQuantity < call.order.quantity
           ELSE /\ call.result.allowed
                /\ call.result.adjustedQuantity = NoQuantity

\* an order above the cap was cut
C6_Witness ==
    /\ call.fn = "checkTradeAllowed"
    /\ CallLimitsClear
    /\ call.order.price * call.order.quantity > CallCapQ
    /\ call.result.adjustedQuantity # NoQuantity
    /\ call.result.adjustedQuantity < call.order.quantity

\* ------------------------------------------------------------------------
\* Properties of the pipeline
\* ------------------------------------------------------------------------

\* the snapshot passes the three limits of the risk engine
WithinLimits(profile, state) ==
    /\ state.currentDrawdownPct < profile.maxDrawdownPct * 100
    /\ state.dailyPnlPct > -(profile.dailyLossLimitPct * 100)
    /\ state.openPositionCount < profile.maxOpenPositions

\* price * quantity <= totalCapital * maxPositionPct / 100
WithinCap(profile, order, state) ==
    order.price * order.quantity
        <= state.totalCapital * profile.maxPositionPct * (QtyScale \div 100)

\* C2: every order published on grid:orders, grid or breakout, was approved against
\* the snapshot the Optimizer held when it checked it (drawdown below the maximum,
\* daily PnL above the negated loss limit, open position count below the maximum)
\* and its notional is within totalCapital * maxPositionPct / 100
C2_OrdersApproved ==
    \A k \in DOMAIN orders :
        /\ WithinLimits(riskProfile, orders[k].checked)
        /\ WithinCap(riskProfile, orders[k], orders[k].checked)

\* a breakout order whose quantity the risk engine cut is on its way, behind or
\* ahead of a grid order
C2_Witness ==
    /\ \E k \in DOMAIN orders :
          /\ orders[k].strategy = "breakout"
          /\ orders[k].quantity
                 < ProposedBreakoutOrder("long", orders[k].price).quantity
    /\ \E k \in DOMAIN orders : orders[k].strategy = "grid"

\* the executions a log of received orders calls for in paper mode
RECURSIVE Expected(_)
Expected(log) ==
    IF log = << >> THEN << >>
    ELSE IF Head(log).paused THEN Expected(Tail(log))
    ELSE << [orderId |-> Head(log).orderId, status |-> "confirmed",
             fillQuantity |-> Head(log).quantity] >> \o Expected(Tail(log))

\* the fields of the executions published that C10 speaks of
Published(log) ==
    [k \in DOMAIN log |-> [orderId |-> log[k].orderId, status |-> log[k].status,
                            fillQuantity |-> log[k].fillQuantity]]

\* C10: in paper mode every order received while the Executor is not paused gets
\* exactly one execution, confirmed, with the order's id and its whole quantity,
\* and no execution is published for an order that was not received
C10_OneExecutionPerOrder ==
    config.paperTradeMode => Published(execLog) = Expected(recvLog)

\* two orders were received and executed, and one was received while paused
C10_Witness ==
    /\ config.paperTradeMode
    /\ Len(execLog) >= 2
    /\ \E k \in DOMAIN recvLog : recvLog[k].paused

C8_SnapshotHasFill ==
    \A k \in DOMAIN optPending :
        optPending[k].kind = "read" => optPending[k].fillsRead >= optPending[k].fillNo

\* ------------------------------------------------------------------------
\* A six-level grid whose sell side is crossed at once
\* ------------------------------------------------------------------------

SixLevels == 6

CrossAllFeed ==
    <<{Sig(CentrePrice, 0)}, {Sig(CentrePrice + 70, 0)}, {Sig(CentrePrice + 70, 0)}>>

InitPositions ==
    InitWith(BotConfig(SixLevels, "low", TRUE),
             [feed |-> CrossAllFeed, draws |-> RandomDraws, commands |-> MaxCommands,
              midnights |-> MaxMidnights, overlap |-> MaxOverlap,
              paced |-> 0, warmup |-> Len(CrossAllFeed),
              calm |-> TRUE])

SpecPositions == InitPositions /\ [][Next]_vars

\* C1: the paper portfolio never holds more than maxOpenPositions open positions,
\* however the Optimizer's and the Executor's steps interleave
C1_OpenPositionsCapped ==
    Len(portfolio.openPositions) <= riskProfile.maxOpenPositions

\* ------------------------------------------------------------------------
\* A rally that stops out a short: the daily loss limit, then the date rollover
\* ------------------------------------------------------------------------

\* the sell levels fill on the way up to a plateau 50 % above the centre; a
\* breakout buy above the plateau closes the first short at a loss of more than
\* 3 % and less than 4 % of the capital; then the price falls below the buy levels
RallyFeed ==
    <<{Sig(CentrePrice, 0)}>>
    \o Repeat({Sig(CentrePrice + CentrePrice \div 2, 0)}, Lookback - 1)
    \o <<{Sig(CentrePrice + CentrePrice \div 2 + 20, 0)}, {Sig(CentrePrice - 20, 0)}>>

InitReset ==
    InitWith(BotConfig(2, "low", TRUE),
             [feed |-> RallyFeed, draws |-> RandomDraws, commands |-> MaxCommands,
              midnights |-> MaxMidnights, overlap |-> MaxOverlap,
              paced |-> Lookback, warmup |-> Lookback + 1, calm |-> FALSE])

SpecReset == InitReset /\ [][Next]_vars

\* the date has rolled over
ResetDone == env.midnights < MaxMidnights

\* the price crosses a level of the current grid that is not filled
CrossesUnfilled(price) ==
    \E k \in DOMAIN currentGrid :
        ~currentGrid[k].filled /\ shouldFill(currentGrid[k], price)

\* C9: after the Executor's reset of the daily PnL at the date rollover a daily
\* loss block is lifted: with nothing in flight and no limit breached by the
\* portfolio or by the Optimizer's drawdown and position count, a signal that
\* crosses an unfilled grid level gets its order
C9_ResetLiftsBlock ==
    [][(/\ ResetDone
        /\ Quiet
        /\ ~optPaused
        /\ WithinLimits(riskProfile, getState(portfolio))
        /\ portfolioState.currentDrawdownPct < riskProfile.maxDrawdownPct * 100
        /\ portfolioState.openPositionCount < riskProfile.maxOpenPositions
        /\ sigCount' = sigCount + 1
        /\ CrossesUnfilled(recentCandles'[Len(recentCandles')]))
       => nextOrderId' = nextOrderId + 1]_vars

\* ------------------------------------------------------------------------
\* A rally that stops out a short beyond the maximum drawdown, then a fall
\* ------------------------------------------------------------------------

\* the sell levels fill on the way up to a plateau at twice the centre; a breakout
\* buy above the plateau closes the first short at a loss of more than 5 % of the
\* capital; then the price falls to the first and to the second buy level
CrashFeed ==
    <<{Sig(CentrePrice, 0)}>>
    \o Repeat({Sig(2 * CentrePrice, 0)}, Lookback - 1)
    \o <<{Sig(2 * CentrePrice + 30, 0)}, {Sig(CentrePrice - 10, 0)},
         {Sig(CentrePrice - 10, 0)}, {Sig(CentrePrice - 20, 0)}>>

InitShutdown ==
    InitWith(BotConfig(2, "low", TRUE),
             [feed |-> CrashFeed, draws |-> RandomDraws, commands |-> MaxCommands,
              midnights |-> MaxMidnights, overlap |-> MaxOverlap,
              paced |-> Lookback, warmup |-> Lookback + 3, calm |-> FALSE])

SpecShutdown == InitShutdown /\ [][Next]_vars

\* C5: once a risk alert with action shutdown has been published the Optimizer
\* publishes no further order, whatever signals and executions arrive
C5_NoOrderAfterShutdown ==
    [][("shutdown" \in alerts) => (nextOrderId' = nextOrderId)]_vars

\* ------------------------------------------------------------------------
\* The paper portfolio on its own: a sequence of fills and daily resets
\* ------------------------------------------------------------------------

\* fills processed by one portfolio
MaxFills == 4

\* the fills tried; money in whole units here, so that 100 -> 110 is the
\* documented example
FillInputs ==
    [action : {"buy", "sell"}, fillPrice : {100, 110},
     fillQuantity : {QtyScale \div 2, QtyScale}, fee : {0, 1}]

\* initial capital of the portfolio on its own
PortfolioCapital == 1000

InitPortfolio ==
    /\ InitPipeline(BotConfig(2, "low", TRUE), NoSurroundings)
    /\ call = [fn |-> "PaperPortfolio", op |-> "new", fills |-> 0, resets |-> 0,
               pf |-> NewPortfolio(PortfolioCapital),
               prev |-> NewPortfolio(PortfolioCapital),
               maxCapital |-> PortfolioCapital,
               fill |-> << >>, trade |-> << >>]

\* portfolio.processExecution(order, fill) for an order and its fill
CallProcessExecution(input) ==
    /\ call.fn = "PaperPortfolio"
    /\ call.fills < MaxFills
    /\ LET order == [action |-> input.action]
           fill  == [orderId |-> call.fills + 1, fillPrice |-> input.fillPrice,
                     fillQuantity |-> input.fillQuantity, fee |-> input.fee]
           after == processExecution(call.pf, order, fill)
       IN  call' = [call EXCEPT !.op = "processExecution",
                                !.fills = @ + 1,
                                !.prev = call.pf,
                                !.pf = after,
                                !.maxCapital = Max(@, after.currentCapital),
                                !.fill = fill @@ order,
                                !.trade = processExecutionResult(call.pf, order, fill)]
    /\ UNCHANGED pipeVars

\* portfolio.resetDailyPnl()
CallResetDailyPnl ==
    /\ call.fn = "PaperPortfolio"
    /\ call.op = "processExecution"
    /\ call.resets < MaxMidnights
    /\ call' = [call EXCEPT !.op = "resetDailyPnl", !.resets = @ + 1,
                            !.prev = call.pf, !.pf = resetDailyPnl(call.pf)]
    /\ UNCHANGED pipeVars

NextPortfolio ==
    \/ \E input \in FillInputs : CallProcessExecution(input)
    \/ CallResetDailyPnl

SpecPortfolio == InitPortfolio /\ [][NextPortfolio]_vars

\* the last call was a processExecution that found an opposite-side position
Closed == call.op = "processExecution" /\ call.trade # << >>

\* the positions of s other than the one of order id
RECURSIVE Without(_, _)
Without(s, id) ==
    IF s = << >> THEN << >>
    ELSE IF Head(s).orderId = id THEN Without(Tail(s), id)
    ELSE << Head(s) >> \o Without(Tail(s), id)

\* C11: with several positions open, a fill on the opposite side closes the
\* position opened earliest, removes exactly that one, and leaves the remaining
\* positions in their order
C11_ClosesOldestFirst ==
    (Closed /\ Len(call.prev.openPositions) >= 2)
        => /\ \A k \in DOMAIN call.prev.openPositions :
                  call.trade[1].entryOrderId <= call.prev.openPositions[k].orderId
           /\ call.pf.openPositions
                  = Without(call.prev.openPositions, call.trade[1].entryOrderId)
           /\ Len(call.pf.openPositions) = Len(call.prev.openPositions) - 1

\* three positions were open and the first of them was closed
C11_Witness ==
    /\ Closed
    /\ Len(call.prev.openPositions) = 3
    /\ call.trade[1].entryOrderId = 1
    /\ Len(call.pf.openPositions) = 2

\* the exact pnl of the last close, times QtyScale: price difference times
\* quantity, less both fees
ExactPnlQ ==
    LET entry == call.prev.openPositions[1]
    IN  (IF entry.side = "buy"
         THEN (call.fill.fillPrice - entry.price) * entry.quantity
         ELSE (entry.price - call.fill.fillPrice) * entry.quantity)
        - (entry.fee + call.fill.fee) * QtyScale

\* one position is open and the last fill closes it with the same quantity
RoundTrip ==
    /\ Closed
    /\ Len(call.prev.openPositions) = 1
    /\ call.prev.openPositions[1].quantity = call.fill.fillQuantity

\* C12: opening at price e, quantity q, fee f1 and closing with an opposite fill at
\* x, q, f2 returns pnl = (x - e) q - (f1 + f2) for a long ((e - x) q - (f1 + f2)
\* for a short) and pnlPct = pnl / (e q) * 100, both rounded to the nearest unit,
\* adds the pnl to the capital and leaves no open position
C12_RoundTripPnl ==
    RoundTrip
        => LET entry == call.prev.openPositions[1]
           IN  /\ 2 * Abs(call.trade[1].pnl * QtyScale - ExactPnlQ) <= QtyScale
               /\ 2 * Abs(call.trade[1].pnlPct * entry.price * entry.quantity
                          - ExactPnlQ * BpScale) <= entry.price * entry.quantity
               /\ call.pf.currentCapital = call.prev.currentCapital + call.trade[1].pnl
               /\ call.pf.openPositions = << >>

\* the documented example: 100 -> 110, quantity 1, no fees: pnl 10, pnlPct 10 %
C12_Witness ==
    /\ RoundTrip
    /\ call.prev.openPositions[1].side = "buy"
    /\ call.prev.openPositions[1].price = 100
    /\ call.prev.openPositions[1].fee = 0
    /\ call.fill.fillPrice = 110
    /\ call.fill.fillQuantity = QtyScale
    /\ call.fill.fee = 0
    /\ call.trade[1].pnl = 10
    /\ call.trade[1].pnlPct = 10 * 100
    /\ call.pf.openPositions = << >>

\* C13: when the closing fill's quantity is smaller than the matched position's,
\* the close is for min(entryQty, exitQty) and the remainder of the entry stays
\* in the open-position list
C13_PartialCloseLeavesResidual ==
    (Closed /\ call.fill.fillQuantity < call.prev.openPositions[1].quantity)
        => /\ call.trade[1].quantity = call.fill.fillQuantity
           /\ \E k \in DOMAIN call.pf.openPositions :
                 /\ call.pf.openPositions[k].orderId = call.trade[1].entryOrderId
                 /\ call.pf.openPositions[k].quantity
                        = call.prev.openPositions[1].quantity - call.fill.fillQuantity

\* ------------------------------------------------------------------------
\* simulateFill on its own
\* ------------------------------------------------------------------------

\* the orders tried: prices in units of the six-decimal rounding
FillOrderInputs ==
    [orderId : {1, 2}, action : {"buy", "sell"}, price : {1000, 1010, 2000, 4000},
     quantity : {QtyScale, 2 * QtyScale}, slippageBps : {0, 50, 100}]

\* Math.random() lies in [0, 1): the draws are 0, 0.1, ... 0.9
RandomInputs == 0 .. 9

InitFill ==
    /\ InitPipeline(BotConfig(2, "low", TRUE), NoSurroundings)
    /\ \E order \in FillOrderInputs : call = [fn |-> "input", order |-> order]

\* simulateFill(order) with Math.random() = random10 / 10
CallSimulateFill(random10) ==
    /\ call.fn = "input"
    /\ call' = [fn |-> "simulateFill", order |-> call.order, random10 |-> random10,
                result |-> simulateFill(call.order, random10)]
    /\ UNCHANGED pipeVars

NextFill == \E random10 \in RandomInputs : CallSimulateFill(random10)

SpecFill == InitFill /\ [][NextFill]_vars

CentreInputs == {10, 1000, 1001, 2000}

SpacingInputs == {50, 100, 1000, 3000}

LevelInputs == 1 .. 3

GridCapitalInputs == {99999, 100000}

InitGridLevels ==
    /\ InitPipeline(BotConfig(2, "low", TRUE), NoSurroundings)
    /\ \E centre \in CentreInputs, spacing \in SpacingInputs,
          levels \in LevelInputs, capital \in GridCapitalInputs :
          call = [fn |-> "input", centerPrice |-> centre, spacingPct |-> spacing,
                  levels |-> levels, totalCapital |-> capital]

\* calculateGridLevels(centerPrice, spacingPct, levels, totalCapital)
CallCalculateGridLevels ==
    /\ call.fn = "input"
    /\ call' = [call EXCEPT !.fn = "calculateGridLevels"] @@
               [result |-> calculateGridLevels(2 * call.centerPrice, 10 * call.spacingPct,
                                               call.levels, call.totalCapital * QtyScale)]
    /\ UNCHANGED pipeVars

NextGridLevels == CallCalculateGridLevels

SpecGridLevels == InitGridLevels /\ [][NextGridLevels]_vars

\* the level of index idx in the result
ResultLevel(idx) ==
    call.result[CHOOSE k \in DOMAIN call.result : call.result[k].index = idx]

\* the result has 2n levels: position k <= n is the buy level -(n + 1 - k), position
\* n + k the sell level k, each at P (1 -+ s i / 100) rounded to the price unit,
\* all unfilled, prices non-decreasing, buy capital summing to C within the
\* quantity rounding
GridShape ==
    LET n    == call.levels
        grid == call.result
    IN  /\ Len(grid) = 2 * n
        /\ \A k \in 1 .. n :
              /\ grid[k].side = "buy" /\ grid[k].index = -(n + 1 - k)
              /\ grid[n + k].side = "sell" /\ grid[n + k].index = k
        /\ \A k \in 1 .. (2 * n) :
              /\ grid[k].filled = FALSE
              /\ 2 * Abs(grid[k].price * BpScale
                         - call.centerPrice * (BpScale + grid[k].index * call.spacingPct))
                    <= BpScale
        /\ \A k \in 1 .. (2 * n - 1) : grid[k].price <= grid[k + 1].price
        /\ 2 * Abs(BuyCapitalQ(grid, Len(grid)) - call.totalCapital * QtyScale)
              <= SumSeq([k \in 1 .. n |-> grid[k].price], n)

\* every buy level is priced below P and every sell level above P
AroundCentre ==
    \A k \in DOMAIN call.result :
        IF call.result[k].side = "buy"
        THEN call.result[k].price < call.centerPrice
        ELSE call.result[k].price > call.centerPrice

AdjustCentre == 1000

AdjustSpacingInputs == {100, 250, 2000}

AtrInputs == {0, 100, 110, 200, 500}

MinSpacingInputs == {50, 100, 5000}

\* grid with the levels at the positions in done marked filled
MarkFilled(grid, done) ==
    [k \in DOMAIN grid |-> [grid[k] EXCEPT !.filled = (k \in done)]]

InitAdjust ==
    /\ InitPipeline(BotConfig(2, "low", TRUE), NoSurroundings)
    /\ \E spacing \in AdjustSpacingInputs, levels \in LevelInputs,
          atrPct \in AtrInputs, minSpacing \in MinSpacingInputs :
          /\ Max(spacing, TargetSpacing10(atrPct, minSpacing) \div 10) * levels < BpScale
          /\ \E done \in SUBSET (1 .. (2 * levels)) :
                call = [fn |-> "input",
                        grid |-> MarkFilled(calculateGridLevels(2 * AdjustCentre, 10 * spacing,
                                                levels, Capital * QtyScale), done),
                        atrPct |-> atrPct, minSpacing |-> minSpacing]

\* adjustGridForVolatility(grid, atrPct, minSpacing)
CallAdjustGridForVolatility ==
    /\ call.fn = "input"
    /\ call' = [call EXCEPT !.fn = "adjustGridForVolatility"] @@
               [result |-> adjustGridForVolatility(call.grid, call.atrPct, call.minSpacing)]
    /\ UNCHANGED pipeVars

\* adjustGridForVolatility(result, atrPct, minSpacing): the function applied to the
\* grid it returned, with the same atrPct and minSpacing
CallAdjustAgain ==
    /\ call.fn = "adjustGridForVolatility"
    /\ call' = [call EXCEPT !.fn = "adjustGridForVolatility.again"] @@
               [again |-> adjustGridForVolatility(call.result, call.atrPct, call.minSpacing)]
    /\ UNCHANGED pipeVars

NextAdjust == CallAdjustGridForVolatility \/ CallAdjustAgain

SpecAdjust == InitAdjust /\ [][NextAdjust]_vars

\* max(atrPct x 1.2, minSpacing) exceeds the spacing between the two
\* lowest-priced levels of the input grid, relative to the lowest
TargetExceedsSpacing ==
    TargetSpacing10(call.atrPct, call.minSpacing) * call.grid[1].price
        > (call.grid[2].price - call.grid[1].price) * 10 * BpScale

\* twice the midpoint between the highest buy and the lowest sell of the input grid
Midpoint2 ==
    MaxOf(SidePrices(call.grid, "buy")) + MinOf(SidePrices(call.grid, "sell"))

\* C16: adjustGridForVolatility regenerates the grid exactly when
\* max(atrPct x 1.2, minSpacing) exceeds the spacing measured from the two
\* lowest-priced levels: the result then has as many levels, is centred on the
\* midpoint between the highest buy and the lowest sell, uses the target spacing
\* and has every filled flag false; otherwise the input grid is returned unchanged
C16_RegeneratesWhenTooNarrow ==
    call.fn = "adjustGridForVolatility"
        => IF TargetExceedsSpacing
           THEN /\ Len(call.result) = Len(call.grid)
                /\ \A k \in DOMAIN call.result :
                      /\ call.result[k].filled = FALSE
                      /\ call.result[k].side = call.grid[k].side
                      /\ call.result[k].index = call.grid[k].index
                      /\ Abs(call.result[k].price * 20 * BpScale
                             - Midpoint2 * (10 * BpScale + call.result[k].index
                                   * TargetSpacing10(call.atrPct, call.minSpacing)))
                            <= 10 * BpScale
           ELSE call.result = call.grid

\* a grid with filled levels was regenerated wider, and the fill state is gone
C16_Witness ==
    /\ call.fn = "adjustGridForVolatility"
    /\ TargetExceedsSpacing
    /\ Len(call.grid) = 4
    /\ call.grid[2].filled
    /\ call.atrPct = 500 /\ call.minSpacing = 100
    /\ call.result # call.grid
    /\ call.result[3].price - call.result[2].price = 2 * 60

\* a grid with filled levels whose spacing equals the target was returned as it is
C16_KeptWitness ==
    /\ call.fn = "adjustGridForVolatility"
    /\ ~TargetExceedsSpacing
    /\ call.minSpacing = 5000
    /\ call.grid[1].filled
    /\ call.result = call.grid

\* ------------------------------------------------------------------------
\* agents/optimizer/backtester.ts: runBacktest, replayed candle by candle, run
\* twice on the same candles
\* ------------------------------------------------------------------------

\* candles of one replay
MaxCandles == 3

\* the seeding close; every candle tried closes there
BacktestClose == 1000

\* lows and highs of the candles tried, around a 1 % grid of two levels a side
\* (980, 990, 1010, 1020)
CandleShapes ==
    [low : {975, 990, BacktestClose}, high : {BacktestClose, 1010, 1025},
     close : {BacktestClose}]

\* the GridConfig of the replay (gridSpacingPct in bp)
BacktestConfig == [gridSpacingPct |-> 100, gridLevels |-> 2, capitalUsd |-> Capital]

\* the state of runBacktest before its loop
NewRun(candles, cfg) ==
    [i               |-> 0,
     grid            |-> calculateGridLevels(2 * candles[1].close, 10 * cfg.gridSpacingPct,
                                             cfg.gridLevels, cfg.capitalUsd * QtyScale),
     gridFills       |-> << >>,
     completedTrades |-> << >>,
     dailyReturns    |-> << >>,
     equity          |-> cfg.capitalUsd,
     peakEquity      |-> cfg.capitalUsd,
     maxDrawdown     |-> 0,
     buyOrders       |-> {},
     done            |-> FALSE,
     result          |-> << >>]

InitBacktest ==
    /\ InitPipeline(BotConfig(2, "low", TRUE), NoSurroundings)
    /\ \E n \in 1 .. MaxCandles : \E shapes \in [1 .. n -> CandleShapes] :
          LET candles == [k \in 1 .. n |-> shapes[k] @@ [timestamp |-> k - 1]]
          IN  call = [fn |-> "runBacktest", candles |-> candles, config |-> BacktestConfig,
                      now |-> 0,
                      first  |-> NewRun(candles, BacktestConfig),
                      second |-> NewRun(candles, BacktestConfig)]

\* variant: the wall clock instead of the candle's time
FillTimestampWallClock(candle) == call.now

\* the timestamp a fill is recorded with
FillTimestamp(candle) == candle.timestamp

\* variant: the level is not marked
MarkLevelNever(grid, k) == grid

\* level.filled = true
MarkLevel(grid, k) == [grid EXCEPT ![k].filled = TRUE]

\* the buy order a sell is matched with: the open buy level closest to the centre
MatchingBuy(buyOrders) ==
    CHOOSE o \in buyOrders : \A other \in buyOrders : other.index <= o.index

\* the body of the loop over the grid for level k and one candle
ReplayLevel(run, candle, k) ==
    LET level == run.grid[k]
        fill  == [level |-> level.index, side |-> level.side, price |-> level.price,
                  timestamp |-> FillTimestamp(candle)]
    IN  IF level.filled THEN run
        ELSE IF level.side = "buy"
        THEN IF candle.low <= level.price
             THEN [run EXCEPT
                     !.buyOrders = {o \in @ : o.index # level.index}
                        \cup {[index |-> level.index, price |-> level.price,
                               quantity |-> level.quantity,
                               timestamp |-> candle.timestamp]},
                     !.gridFills = Append(@, fill),
                     !.grid = MarkLevel(@, k)]
             ELSE run
        ELSE IF candle.high >= level.price
             THEN IF {o \in run.buyOrders : o.index < 0} # {}
                  THEN LET buyOrder == MatchingBuy({o \in run.buyOrders : o.index < 0})
                       IN  [run EXCEPT
                              !.completedTrades =
                                  Append(@, [buyPrice |-> buyOrder.price,
                                             sellPrice |-> level.price,
                                             quantity |-> buyOrder.quantity]),
                              !.equity = @ + calculatePnL("buy", buyOrder.price, level.price,
                                                          buyOrder.quantity, 0),
                              !.buyOrders = @ \ {buyOrder},
                              !.gridFills = Append(@, fill),
                              !.grid = MarkLevel(@, k)]
                  ELSE [run EXCEPT !.gridFills = Append(@, fill),
                                   !.grid = MarkLevel(@, k)]
             ELSE run

\* for (const level of grid), from level k on
RECURSIVE ReplayLevels(_, _, _)
ReplayLevels(run, candle, k) ==
    IF k > Len(run.grid) THEN run
    ELSE ReplayLevels(ReplayLevel(run, candle, k), candle, k + 1)

\* one iteration of the loop over the candles: fills, drawdown, per-candle return
\* (percentages in bp)
ReplayCandle(run, candle, cfg) ==
    LET filled  == ReplayLevels(run, candle, 1)
        equity  == filled.equity
        peak    == Max(run.peakEquity, equity)
        current == ((peak - equity) * BpScale) \div peak
        prev    == IF run.i = 1 THEN cfg.capitalUsd ELSE equity
    IN  [filled EXCEPT
           !.peakEquity   = peak,
           !.maxDrawdown  = Max(@, current),
           !.dailyReturns = IF run.i > 0
                            THEN Append(@, ((equity - prev) * BpScale) \div prev)
                            ELSE @,
           !.i            = @ + 1]

\* calculateSharpe(dailyReturns) without its square roots: 0 for fewer than two
\* returns or no variance, otherwise the pair << sum, n^2 * variance >> that
\* determines mean / stdDev * sqrt(365)
calculateSharpe(dailyReturns) ==
    LET n     == Len(dailyReturns)
        sum   == SumSeq(dailyReturns, n)
        varN2 == n * SumSqSeq(dailyReturns, n) - sum * sum
    IN  IF n < 2 \/ varN2 = 0 THEN << 0, 1 >> ELSE << sum, varN2 >>

\* number of completed trades with a sell above (wins) or not above the buy
RECURSIVE CountTrades(_, _, _)
CountTrades(trades, k, wins) ==
    IF k = 0 THEN 0
    ELSE CountTrades(trades, k - 1, wins)
         + (IF (trades[k].sellPrice > trades[k].buyPrice) = wins THEN 1 ELSE 0)

\* the BacktestResult computed after the loop
BacktestResult(run, cfg) ==
    LET winningTrades == CountTrades(run.completedTrades, Len(run.completedTrades), TRUE)
        losingTrades  == CountTrades(run.completedTrades, Len(run.completedTrades), FALSE)
        totalTrades   == Len(run.completedTrades)
    IN  [totalTrades   |-> totalTrades,
         winningTrades |-> winningTrades,
         losingTrades  |-> losingTrades,
         winRate       |-> IF totalTrades > 0
                           THEN (winningTrades * BpScale) \div totalTrades ELSE 0,
         totalPnl      |-> run.equity - cfg.capitalUsd,
         totalPnlPct   |-> ((run.equity - cfg.capitalUsd) * BpScale) \div cfg.capitalUsd,
         maxDrawdown   |-> run.maxDrawdown,
         sharpeRatio   |-> calculateSharpe(run.dailyReturns),
         gridFills     |-> run.gridFills]

\* the two replays of the same input
Runs == {"first", "second"}

\* one iteration of the candle loop in replay r
BacktestCandle(r) ==
    /\ call.fn = "runBacktest"
    /\ call[r].i < Len(call.candles)
    /\ call' = [call EXCEPT ![r] = ReplayCandle(@, call.candles[call[r].i + 1], call.config),
                            !.now = @ + 1]
    /\ UNCHANGED pipeVars

\* the metrics and the return of replay r
BacktestFinish(r) ==
    /\ call.fn = "runBacktest"
    /\ call[r].i = Len(call.candles)
    /\ ~call[r].done
    /\ call' = [call EXCEPT ![r].done = TRUE,
                            ![r].result = << BacktestResult(call[r], call.config) >>,
                            !.now = @ + 1]
    /\ UNCHANGED pipeVars

NextBacktest ==
    \E r \in Runs :
        \/ BacktestCandle(r)
        \/ BacktestFinish(r)

SpecBacktest == InitBacktest /\ [][NextBacktest]_vars

\* number of entries of gridFills for the level of index idx
RECURSIVE FillsOf(_, _, _)
FillsOf(gridFills, k, idx) ==
    IF k = 0 THEN 0
    ELSE FillsOf(gridFills, k - 1, idx) + (IF gridFills[k].level = idx THEN 1 ELSE 0)

\* C17: within one backtest replay each grid level fills at most once: gridFills
\* holds at most one entry per level index
C17_LevelFillsOnce ==
    \A r \in Runs : \A k \in DOMAIN call[r].grid :
        FillsOf(call[r].gridFills, Len(call[r].gridFills), call[r].grid[k].index) <= 1

\* a level filled by one candle is crossed again by a later candle and is not
\* filled a second time
C17_Witness ==
    /\ call.first.i = 3
    /\ call.candles[2].low <= 990 /\ call.candles[3].low <= 990
    /\ call.candles[1].low > 990
    /\ FillsOf(call.first.gridFills, Len(call.first.gridFills), -1) = 1

\* C18: the grid is seeded from the first candle's close and fills are evaluated
\* only on later candles: the seeding candle (timestamp 0) never fills a level
C18_SeedingCandleFillsNothing ==
    \A r \in Runs : \A k \in DOMAIN call[r].gridFills :
        call[r].gridFills[k].timestamp >= 1

MaxIndicators == 5

\* what compute(name, candles) gives for one name: << >> for null (unregistered,
\* too few candles, or the indicator threw), otherwise << output >> with the
\* confidence in hundredths
ComputeOutcomes ==
    {<< >>} \cup {<< [signal |-> sig, confidence |-> c] >> :
                     sig \in {"buy", "sell", "neutral"}, c \in {50, 80}}

\* the loop over the names: the tallies after the first k names
RECURSIVE TallyVotes(_, _)
TallyVotes(outcomes, k) ==
    IF k = 0
    THEN [indicators |-> {}, buyCount |-> 0, sellCount |-> 0, neutralCount |-> 0,
          totalConfidence |-> 0]
    ELSE LET t == TallyVotes(outcomes, k - 1)
         IN  IF outcomes[k] = << >> THEN t
             ELSE LET result == outcomes[k][1]
                  IN  [indicators      |-> t.indicators \cup {k},
                       buyCount        |-> t.buyCount
                                           + (IF result.signal = "buy" THEN 1 ELSE 0),
                       sellCount       |-> t.sellCount
                                           + (IF result.signal = "sell" THEN 1 ELSE 0),
                       neutralCount    |-> t.neutralCount
                                           + (IF result.signal \notin {"buy", "sell"}
                                              THEN 1 ELSE 0),
                       totalConfidence |-> t.totalConfidence + result.confidence]

\* variant: a side that ties with the other side still wins
ConsensusSignalOnTie(buyCount, sellCount, neutralCount, totalConfidence) ==
    LET total  == buyCount + sellCount + neutralCount
        strong == total > 0 /\ totalConfidence > 75 * total
    IN  IF buyCount >= sellCount /\ buyCount > neutralCount
        THEN (IF strong THEN "strong_buy" ELSE "buy")
        ELSE IF sellCount > buyCount /\ sellCount > neutralCount
        THEN (IF strong THEN "strong_sell" ELSE "sell")
        ELSE "neutral"

\* the consensus signal; avgConfidence > 0.75 is totalConfidence > 75 * total
ConsensusSignal(buyCount, sellCount, neutralCount, totalConfidence) ==
    LET total  == buyCount + sellCount + neutralCount
        strong == total > 0 /\ totalConfidence > 75 * total
    IN  IF buyCount > sellCount /\ buyCount > neutralCount
        THEN (IF strong THEN "strong_buy" ELSE "buy")
        ELSE IF sellCount > buyCount /\ sellCount > neutralCount
        THEN (IF strong THEN "strong_sell" ELSE "sell")
        ELSE "neutral"

\* computeAll(candles, activeIndicators), given what compute returns for each name
computeAll(outcomes) ==
    LET t     == TallyVotes(outcomes, Len(outcomes))
        total == t.buyCount + t.sellCount + t.neutralCount
    IN  [indicators |-> [k \in t.indicators |-> outcomes[k][1]],
         consensus  |->
             [signal       |-> ConsensusSignal(t.buyCount, t.sellCount, t.neutralCount,
                                               t.totalConfidence),
              confidence   |-> IF total > 0 THEN RoundDiv(t.totalConfidence, total) ELSE 0,
              buyCount     |-> t.buyCount,
              sellCount    |-> t.sellCount,
              neutralCount |-> t.neutralCount]]

InitEngine ==
    /\ InitPipeline(BotConfig(2, "low", TRUE), NoSurroundings)
    /\ \E n \in 0 .. MaxIndicators : \E outcomes \in [1 .. n -> ComputeOutcomes] :
          call = [fn |-> "input", outcomes |-> outcomes]

\* engine.computeAll(candles, names)
CallComputeAll ==
    /\ call.fn = "input"
    /\ call' = [fn |-> "computeAll", outcomes |-> call.outcomes,
                result |-> computeAll(call.outcomes)]
    /\ UNCHANGED pipeVars

NextEngine == CallComputeAll

SpecEngine == InitEngine /\ [][NextEngine]_vars

\* number of names whose output carries the signal sig
Votes(sig) ==
    Cardinality({k \in DOMAIN call.outcomes :
                    call.outcomes[k] # << >> /\ call.outcomes[k][1].signal = sig})

\* C20: the consensus direction follows strict plurality: buy-side (buy or
\* strong_buy) iff buyCount > sellCount and buyCount > neutralCount, sell-side iff
\* sellCount > buyCount and sellCount > neutralCount, neutral in every other case,
\* every tie for the largest category included
C20_StrictPlurality ==
    call.fn = "computeAll"
        => LET signal == call.result.consensus.signal
           IN  /\ signal \in {"buy", "strong_buy"}
                     <=> (Votes("buy") > Votes("sell") /\ Votes("buy") > Votes("neutral"))
               /\ signal \in {"sell", "strong_sell"}
                     <=> (Votes("sell") > Votes("buy") /\ Votes("sell") > Votes("neutral"))
               /\ signal \in {"buy", "strong_buy", "sell", "strong_sell", "neutral"}

\* two buy votes tie with two sell votes above one neutral vote: neutral
C20_Witness ==
    /\ call.fn = "computeAll"
    /\ Votes("buy") = 2 /\ Votes("sell") = 2 /\ Votes("neutral") = 1
    /\ call.result.consensus.signal = "neutral"

\* sum of the confidences (hundredths) of the outputs that carry the signal sig
RECURSIVE ConfidenceOf(_, _)
ConfidenceOf(sig, k) ==
    IF k = 0 THEN 0
    ELSE ConfidenceOf(sig, k - 1)
         + (IF call.outcomes[k] # << >> /\ call.outcomes[k][1].signal = sig
            THEN call.outcomes[k][1].confidence ELSE 0)

\* C21: when a side wins the plurality, the consensus is strong_buy / strong_sell
\* exactly when the average confidence of the indicators that voted for the
\* winning side exceeds 0.75, and plain buy / sell otherwise
C21_StrongByWinningCategory ==
    call.fn = "computeAll"
        => LET signal == call.result.consensus.signal
               n      == Len(call.outcomes)
           IN  /\ signal \in {"buy", "strong_buy"}
                     => (signal = "strong_buy"
                            <=> ConfidenceOf("buy", n) > 75 * Votes("buy"))
               /\ signal \in {"sell", "strong_sell"}
                     => (signal = "strong_sell"
                            <=> ConfidenceOf("sell", n) > 75 * Votes("sell"))

\* ------------------------------------------------------------------------
\* The engine with its registry: computeAll(recentCandles, activeIndicators)
\* ------------------------------------------------------------------------

\* config.strategy.activeIndicators of DEFAULT_CONFIG, the eleven registered names
DefaultIndicators ==
    << "rsi", "ema", "atr", "macd", "bollinger", "supertrend", "smart-money-range",
       "fibo-volume-profile", "filtered-volume-profile", "trend-channels",
       "momentum-ghost" >>

\* the names the constructor registers
Registry == {DefaultIndicators[k] : k \in DOMAIN DefaultIndicators}

\* the candles the Signal Agent keeps for one cycle: candles.slice(-100)
SignalWindow == 100

\* config.minCandles of each registered indicator; the one of smart-money-range
\* is a parameter
MinCandlesOf(name, smartMoneyMin) ==
    CASE name = "rsi"                     -> 15
      [] name = "ema"                     -> 22
      [] name = "atr"                     -> 15
      [] name = "macd"                    -> 35
      [] name = "bollinger"               -> 21
      [] name = "supertrend"              -> 15
      [] name = "smart-money-range"       -> smartMoneyMin
      [] name = "fibo-volume-profile"     -> 100
      [] name = "filtered-volume-profile" -> 50
      [] name = "trend-channels"          -> 40
      [] name = "momentum-ghost"          -> 120

\* the active-name lists tried: the default one, and it with an unregistered name
NameLists == {DefaultIndicators, << "my-strategy" >> \o DefaultIndicators}

\* lengths of recentCandles tried (at most the window), minCandles tried for
\* smart-money-range, and the indicators whose vote is varied
CandleCounts == {14, 40, SignalWindow}

SmartMoneyMinInputs == {20, 100}

VariedVoters == {"rsi", "ema", "macd", "momentum-ghost"}

InitRegistry ==
    /\ InitPipeline(BotConfig(2, "low", TRUE), NoSurroundings)
    /\ \E names \in NameLists, count \in CandleCounts,
          smartMoneyMin \in SmartMoneyMinInputs,
          thrower \in Registry \cup {"none"}, buyers \in SUBSET VariedVoters :
          call = [fn |-> "input", names |-> names, candleCount |-> count,
                  smartMoneyMin |-> smartMoneyMin, thrower |-> thrower,
                  buyers |-> buyers]

\* variant: the minimum-candle requirement is not tested
computeAnyLength(name, input) ==
    IF name \notin Registry THEN << >>
    ELSE IF name = input.thrower THEN << >>
    ELSE << [signal |-> IF name \in input.buyers THEN "buy" ELSE "neutral",
             confidence |-> IF name \in input.buyers THEN 80 ELSE 50] >>

\* engine.compute(name, candles): << >> for null when the name is not registered,
\* the candles are fewer than minCandles, or indicator.compute throws (caught);
\* otherwise << the indicator's output >>
compute(name, input) ==
    IF name \notin Registry THEN << >>
    ELSE IF input.candleCount < MinCandlesOf(name, input.smartMoneyMin) THEN << >>
    ELSE IF name = input.thrower THEN << >>
    ELSE << [signal |-> IF name \in input.buyers THEN "buy" ELSE "neutral",
             confidence |-> IF name \in input.buyers THEN 80 ELSE 50] >>

\* engine.computeAll(recentCandles, names), every compute(name, ..) included
CallEngineComputeAll ==
    /\ call.fn = "input"
    /\ call' = [call EXCEPT !.fn = "engine.computeAll"] @@
               [result |-> computeAll([k \in DOMAIN call.names |->
                                          compute(call.names[k], call)])]
    /\ UNCHANGED pipeVars

NextRegistry == CallEngineComputeAll

SpecRegistry == InitRegistry /\ [][NextRegistry]_vars

\* positions in the name list of the indicators that are registered, have enough
\* candles and do not throw
Producing ==
    {k \in DOMAIN call.names :
        /\ call.names[k] \in Registry
        /\ call.candleCount >= MinCandlesOf(call.names[k], call.smartMoneyMin)
        /\ call.names[k] # call.thrower}

\* C22: computeAll returns a result whatever the names do: a name that is
\* unregistered, has too few candles or throws is skipped, appearing neither in
\* the per-indicator outputs nor in a tally, and buyCount + sellCount +
\* neutralCount equals the number of indicators that produced an output
C22_SkippedNeverCounted ==
    call.fn = "engine.computeAll"
        => /\ DOMAIN call.result.indicators = Producing
           /\ call.result.consensus.buyCount + call.result.consensus.sellCount
                 + call.result.consensus.neutralCount = Cardinality(Producing)
           /\ call.result.consensus.buyCount
                 = Cardinality({k \in Producing : call.names[k] \in call.buyers})

\* an unregistered name, a throwing indicator and indicators short of candles in
\* one call: the others are tallied
C22_Witness ==
    /\ call.fn = "engine.computeAll"
    /\ call.names[1] = "my-strategy"
    /\ call.thrower = "rsi"
    /\ call.candleCount = 40
    /\ call.buyers = {"rsi", "ema", "macd", "momentum-ghost"}
    /\ call.result.consensus.buyCount = 2
    /\ Cardinality(DOMAIN call.result.indicators) = 7
           - (IF call.smartMoneyMin > 40 THEN 1 ELSE 0)

\* C23: with the default active indicators and a full window of 100 candles all
\* 11 indicators vote: none is skipped for lack of candles and buyCount +
\* sellCount + neutralCount = 11
C23_AllElevenVote ==
    (/\ call.fn = "engine.computeAll"
     /\ call.names = DefaultIndicators
     /\ call.candleCount = SignalWindow
     /\ call.thrower = "none")
        => call.result.consensus.buyCount + call.result.consensus.sellCount
              + call.result.consensus.neutralCount = 11

\* ------------------------------------------------------------------------
\* Signals of low consensus confidence
\* ------------------------------------------------------------------------

\* DEFAULT_CONFIG.strategy.minConfidence, in hundredths
MinConfidence == 60

\* a SignalMessage with its consensus confidence (hundredths)
ConfidentSig(price, atr, confidence) ==
    Sig(price, atr) @@ [confidence |-> confidence]

\* the grid is seeded by a confident signal; the price then crosses the first sell
\* level on a signal of confidence 0.3 and the first buy level on one of 0.8
LowConfidenceFeed ==
    <<{ConfidentSig(CentrePrice, 0, 80)}, {ConfidentSig(CentrePrice + 15, 0, 30)},
      {ConfidentSig(CentrePrice - 15, 0, 80)}>>

InitConfidence ==
    InitWith(BotConfig(2, "low", TRUE),
             [feed |-> LowConfidenceFeed, draws |-> RandomDraws, commands |-> MaxCommands,
              midnights |-> MaxMidnights, overlap |-> MaxOverlap,
              paced |-> 0, warmup |-> 1, calm |-> FALSE])

SpecConfidence == InitConfidence /\ [][Next]_vars

\* C24: the Optimizer publishes an order only in response to a signal whose
\* consensus confidence is at least strategy.minConfidence
C24_OrdersNeedConfidence ==
    \A k \in DOMAIN orders :
        \A signal \in env.feed[orders[k].sig] : signal.confidence >= MinConfidence

\* ------------------------------------------------------------------------
\* indicators/built-in/rsi: RSIIndicator.compute and calculateRSI
\* ------------------------------------------------------------------------

\* the initial sums of gains and losses over closes[1..period] (JS indices), as
\* averages A / D and L / D with D = period
RECURSIVE InitialAverages(_, _, _)
InitialAverages(closes, period, i) ==
    IF i = 0 THEN [A |-> 0, L |-> 0, D |-> period]
    ELSE LET prev   == InitialAverages(closes, period, i - 1)
             change == closes[i + 1] - closes[i]
         IN  IF change > 0 THEN [prev EXCEPT !.A = @ + change]
             ELSE [prev EXCEPT !.L = @ + Abs(change)]

\* Wilder's smoothing up to JS index i: avg = (avg * (period - 1) + x) / period,
\* kept exact as A / D and L / D
RECURSIVE SmoothedAverages(_, _, _)
SmoothedAverages(closes, period, i) ==
    IF i <= period THEN InitialAverages(closes, period, period)
    ELSE LET prev   == SmoothedAverages(closes, period, i - 1)
             change == closes[i + 1] - closes[i]
             gain   == IF change > 0 THEN change ELSE 0
             loss   == IF change < 0 THEN Abs(change) ELSE 0
         IN  [A |-> prev.A * (period - 1) + gain * prev.D,
              L |-> prev.L * (period - 1) + loss * prev.D,
              D |-> prev.D * period]

\* variant: the ratio of losses to gains
calculateRSIInverted(closes, period) ==
    IF Len(closes) < period + 1 THEN [num |-> 50, den |-> 1]
    ELSE LET avg == SmoothedAverages(closes, period, Len(closes) - 1)
         IN  IF avg.A = 0 THEN [num |-> 100, den |-> 1]
             ELSE [num |-> 100 * avg.L, den |-> avg.A + avg.L]

\* calculateRSI(closes, period) as the exact fraction num / den:
\* 100 - 100 / (1 + avgGain / avgLoss) = 100 avgGain / (avgGain + avgLoss)
calculateRSI(closes, period) ==
    IF Len(closes) < period + 1 THEN [num |-> 50, den |-> 1]
    ELSE LET avg == SmoothedAverages(closes, period, Len(closes) - 1)
         IN  IF avg.L = 0 THEN [num |-> 100, den |-> 1]
             ELSE [num |-> 100 * avg.A, den |-> avg.A + avg.L]

\* RSIIndicator.compute({candles, params}): signal and confidence (hundredths,
\* truncated)
RSICompute(closes, params) ==
    LET rsi == calculateRSI(closes, params.period)
    IN  IF rsi.num <= params.oversold * rsi.den
        THEN [signal |-> "buy",
              confidence |-> Min(100, 60 + (40 * (params.oversold * rsi.den - rsi.num))
                                              \div (params.oversold * rsi.den))]
        ELSE IF rsi.num >= params.overbought * rsi.den
        THEN [signal |-> "sell",
              confidence |-> Min(100, 60 + (40 * (rsi.num - params.overbought * rsi.den))
                                              \div ((100 - params.overbought) * rsi.den))]
        ELSE [signal |-> "neutral", confidence |-> 50]

\* closes and periods tried; the series have up to MaxCloses closes
MaxCloses == 5

CloseInputs == {100, 101, 103}

PeriodInputs == 1 .. 3

\* defaultParams of the RSI indicator but for the period
RSIParams(period) == [period |-> period, overbought |-> 70, oversold |-> 30]

InitRSI ==
    /\ InitPipeline(BotConfig(2, "low", TRUE), NoSurroundings)
    /\ \E n \in 0 .. MaxCloses : \E closes \in [1 .. n -> CloseInputs] :
          \E period \in PeriodInputs :
             call = [fn |-> "input", closes |-> closes, period |-> period]

\* calculateRSI(closes, period)
CallCalculateRSI ==
    /\ call.fn = "input"
    /\ call' = [call EXCEPT !.fn = "calculateRSI"] @@
               [result |-> calculateRSI(call.closes, call.period)]
    /\ UNCHANGED pipeVars

\* new RSIIndicator().compute({candles, params}), called directly
CallRSICompute ==
    /\ call.fn = "input"
    /\ call' = [call EXCEPT !.fn = "RSIIndicator.compute"] @@
               [result |-> RSICompute(call.closes, RSIParams(call.period))]
    /\ UNCHANGED pipeVars

NextRSI ==
    \/ CallCalculateRSI
    \/ CallRSICompute

SpecRSI == InitRSI /\ [][NextRSI]_vars

\* no close of the series is below the one before it
NoLosingStep ==
    \A k \in 1 .. (Len(call.closes) - 1) : call.closes[k + 1] >= call.closes[k]

\* the RSI lies in [0, 100]
RSIInRange ==
    /\ call.result.den > 0
    /\ call.result.num >= 0
    /\ call.result.num <= 100 * call.result.den

\* C30 as amended: for any closes and period >= 1 calculateRSI returns a value in
\* [0, 100]; for a series of at least period + 1 closes with no losing step it
\* returns exactly 100, and for a shorter series it returns 50
C30_RSIBounded ==
    call.fn = "calculateRSI"
        => /\ RSIInRange
           /\ (Len(call.closes) >= call.period + 1 /\ NoLosingStep)
                 => call.result = [num |-> 100, den |-> 1]
           /\ Len(call.closes) < call.period + 1
                 => call.result = [num |-> 50, den |-> 1]

\* a rising series longer than the period gives 100, by way of the smoothing loop
C30_Witness ==
    /\ call.fn = "calculateRSI"
    /\ call.closes = << 100, 101, 103, 103, 103 >>
    /\ call.period = 2
    /\ call.result = [num |-> 100, den |-> 1]

\* C30 as stated: the RSI lies in [0, 100] and is exactly 100 for every series
\* with no losing step
C30_RisingIsHundred ==
    call.fn = "calculateRSI"
        => /\ RSIInRange
           /\ NoLosingStep => call.result = [num |-> 100, den |-> 1]

\* C25: compute called directly with fewer candles than the indicator's minCandles
\* (period + 1 for the RSI) returns signal neutral with confidence 0
C25_ShortInputNeutralZero ==
    (call.fn = "RSIIndicator.compute" /\ Len(call.closes) < call.period + 1)
        => call.result = [signal |-> "neutral", confidence |-> 0]

\* ------------------------------------------------------------------------
\* bus/redis.ts: MessageBus, one subscribed channel
\* ------------------------------------------------------------------------

\* handlers registered on the channel and messages delivered on it
MaxHandlers == 3

MaxMessages == 3

\* the handlers of the program are plain functions (a throw inside reaches the
\* listener) or async functions (a throw inside becomes a rejected promise)
HandlerKinds == {"sync", "async"}

\* the payloads tried: text JSON.parse rejects, a BusMessage object, and the JSON
\* text null, which parses but makes a handler's message.type throw
Payloads == {"malformed", "message", "null"}

InitBus ==
    /\ InitPipeline(BotConfig(2, "low", TRUE), NoSurroundings)
    /\ call = [fn |-> "MessageBus", handlers |-> << >>, delivered |-> << >>,
               invoked |-> {}, listening |-> TRUE]

\* bus.subscribe(channel, handler)
BusSubscribe(kind) ==
    /\ call.fn = "MessageBus"
    /\ Len(call.handlers) < MaxHandlers
    /\ call' = [call EXCEPT !.handlers = Append(@, kind)]
    /\ UNCHANGED pipeVars

\* for (const handler of channelHandlers) handler(message), from handler k on:
\* the handlers invoked; a plain handler that throws ends the loop
RECURSIVE InvokeFrom(_, _, _)
InvokeFrom(handlers, data, k) ==
    IF k > Len(handlers) THEN {}
    ELSE IF data = "null" /\ handlers[k] = "sync" THEN {k}
    ELSE {k} \cup InvokeFrom(handlers, data, k + 1)

\* variant: JSON.parse outside the try block: the exception leaves the listener
\* and ends the process
OnMessageUncaught(bus, data) ==
    IF data = "malformed" THEN [bus EXCEPT !.listening = FALSE]
    ELSE [bus EXCEPT !.invoked = @ \cup
             {[message |-> Len(bus.delivered) + 1, handler |-> h] :
                 h \in InvokeFrom(bus.handlers, data, 1)}]

\* the subscriber's 'message' listener for one payload: parse, then every handler
\* of the channel, all inside one try / catch that logs
OnMessage(bus, data) ==
    IF data = "malformed" THEN bus
    ELSE [bus EXCEPT !.invoked = @ \cup
             {[message |-> Len(bus.delivered) + 1, handler |-> h] :
                 h \in InvokeFrom(bus.handlers, data, 1)}]

\* Redis delivers a payload on the channel; the listener runs if the subscriber
\* is still there
BusDeliver(data) ==
    /\ call.fn = "MessageBus"
    /\ Len(call.handlers) >= 1
    /\ Len(call.delivered) < MaxMessages
    /\ call' = [(IF call.listening THEN OnMessage(call, data) ELSE call)
                   EXCEPT !.delivered = Append(call.delivered,
                                               [data |-> data,
                                                handlers |-> Len(call.handlers)])]
    /\ UNCHANGED pipeVars

NextBus ==
    \/ \E kind \in HandlerKinds : BusSubscribe(kind)
    \/ \E data \in Payloads : BusDeliver(data)

SpecBus == InitBus /\ [][NextBus]_vars

\* C26: a message that fails to parse is dropped without invoking any handler and
\* without ending the subscriber, and every handler registered on the channel is
\* invoked for every well-formed message, those after a malformed one included
C26_MalformedDropped ==
    call.fn = "MessageBus"
        => /\ call.listening
           /\ \A m \in DOMAIN call.delivered :
                 /\ call.delivered[m].data = "malformed"
                       => ~\E i \in call.invoked : i.message = m
                 /\ call.delivered[m].data = "message"
                       => \A h \in 1 .. call.delivered[m].handlers :
                             [message |-> m, handler |-> h] \in call.invoked

\* a malformed message was dropped and the next message reached both handlers
C26_Witness ==
    /\ call.fn = "MessageBus"
    /\ Len(call.delivered) = 2
    /\ call.delivered[1] = [data |-> "malformed", handlers |-> 2]
    /\ call.delivered[2] = [data |-> "message", handlers |-> 2]
    /\ call.invoked = {[message |-> 2, handler |-> 1], [message |-> 2, handler |-> 2]}

\* ------------------------------------------------------------------------
\* agents/signal: startSignalAgent's loop over the price feed (withRetry), the
\* indicator engine, the signal publisher and the heartbeat
\* ------------------------------------------------------------------------

\* price-feed.ts: MAX_RETRIES
MAX_RETRIES == 3

\* cycles of the loop that are followed
MaxCycles == 2

\* what one invocation of the wrapped request does: it resolves, fails with HTTP
\* 429, or fails otherwise (another status, no response, an invalid body)
RequestOutcomes == {"ok", "429", "error"}

\* a withRetry call before its first attempt
NewRetry == [outcomes |-> << >>, status |-> "running"]

\* variant: every failure is retried
RetryStepAnyFailure(retry, outcome) ==
    LET attempt == Len(retry.outcomes) + 1
    IN  [outcomes |-> Append(retry.outcomes, outcome),
         status   |-> IF outcome = "ok" THEN "returned"
                      ELSE IF attempt < MAX_RETRIES THEN "running"
                      ELSE "thrown"]

\* one iteration of withRetry's loop: attempt = number of invocations so far + 1
RetryStep(retry, outcome) ==
    LET attempt == Len(retry.outcomes) + 1
    IN  [outcomes |-> Append(retry.outcomes, outcome),
         status   |-> IF outcome = "ok" THEN "returned"
                      ELSE IF outcome = "429" /\ attempt < MAX_RETRIES THEN "running"
                      ELSE "thrown"]

\* variant: the price is not compared
shouldPublishNoPrice(current, previous) ==
    IF previous = << >> THEN TRUE
    ELSE IF current.recommendation # previous[1].recommendation THEN TRUE
    ELSE Abs(current.confidence - previous[1].confidence) > 15

\* shouldPublish(current, previous); previous is << >> for null, confidences in
\* hundredths
shouldPublish(current, previous) ==
    IF previous = << >> THEN TRUE
    ELSE IF current.recommendation # previous[1].recommendation THEN TRUE
    ELSE IF Abs(current.confidence - previous[1].confidence) > 15 THEN TRUE
    ELSE Abs(current.price - previous[1].price) * 100 > previous[1].price

\* prices the feed reports and consensus results the engine computes
PriceInputs == {CentrePrice, CentrePrice + 10, CentrePrice + 20}

ConsensusInputs == [recommendation : {"neutral", "buy"}, confidence : {50, 65, 70}]

InitAgent ==
    /\ InitPipeline(BotConfig(2, "low", TRUE), NoSurroundings)
    /\ call = [fn |-> "startSignalAgent", running |-> TRUE, pc |-> "loop", cycle |-> 0,
               retry |-> NewRetry, price |-> 0, lastPublishedSignal |-> << >>,
               signals |-> << >>, heartbeats |-> {}, failed |-> {},
               busFailed |-> FALSE, computed |-> << >>]

\* variant: no try / catch around the cycle
CatchCycleNever(agent, cause) ==
    [agent EXCEPT !.pc = "crashed",
                  !.failed = @ \cup {[cycle |-> agent.cycle, cause |-> cause]}]

\* an exception inside the try block of the cycle: the catch block is entered
CatchCycle(agent, cause) ==
    [agent EXCEPT !.pc = "catch",
                  !.failed = @ \cup {[cycle |-> agent.cycle, cause |-> cause]}]

\* SIGINT or SIGTERM: the handler clears the running flag
AgentSignalled ==
    /\ call.fn = "startSignalAgent"
    /\ call.running
    /\ call.pc \notin {"stopped", "crashed"}
    /\ call' = [call EXCEPT !.running = FALSE]
    /\ UNCHANGED pipeVars

\* while (running): the next cycle starts with getCurrentPrice, or the loop ends
AgentLoop ==
    /\ call.fn = "startSignalAgent"
    /\ call.pc = "loop"
    /\ call.running => call.cycle < MaxCycles
    /\ call' = IF call.running
               THEN [call EXCEPT !.pc = "price", !.cycle = @ + 1, !.retry = NewRetry]
               ELSE [call EXCEPT !.pc = "stopped"]
    /\ UNCHANGED pipeVars

\* one attempt of withRetry inside getCurrentPrice; on success the price is kept
\* and, after the pause, getHistoricalOHLCV(mint, 2) begins
AgentPriceAttempt(outcome, price) ==
    /\ call.fn = "startSignalAgent"
    /\ call.pc = "price"
    /\ LET retry == RetryStep(call.retry, outcome)
       IN  call' = IF retry.status = "returned"
                   THEN [call EXCEPT !.pc = "ohlcv", !.price = price, !.retry = NewRetry]
                   ELSE IF retry.status = "thrown"
                   THEN [CatchCycle(call, "feed") EXCEPT !.retry = retry]
                   ELSE [call EXCEPT !.retry = retry]
    /\ UNCHANGED pipeVars

\* one attempt of withRetry inside getOHLCV (two days are one request); without
\* candles the cycle is skipped, otherwise the engine runs
AgentCandleAttempt(outcome, candles) ==
    /\ call.fn = "startSignalAgent"
    /\ call.pc = "ohlcv"
    /\ LET retry == RetryStep(call.retry, outcome)
       IN  call' = IF retry.status = "returned"
                   THEN [call EXCEPT !.pc = IF candles = 0 THEN "sleep" ELSE "compute",
                                     !.retry = retry]
                   ELSE IF retry.status = "thrown"
                   THEN [CatchCycle(call, "feed") EXCEPT !.retry = retry]
                   ELSE [call EXCEPT !.retry = retry]
    /\ UNCHANGED pipeVars

\* steps 3 to 5: computeAll and the SignalMessage (which may throw), then
\* publishSignal if shouldPublish says so (the bus may refuse)
AgentCompute(consensus, throws, busUp) ==
    /\ call.fn = "startSignalAgent"
    /\ call.pc = "compute"
    /\ LET signal == consensus @@ [price |-> call.price]
           seen   == << [signal |-> signal, previous |-> call.lastPublishedSignal] >>
       IN  call' =
             IF throws THEN CatchCycle(call, "indicator")
             ELSE IF ~shouldPublish(signal, call.lastPublishedSignal)
             THEN [call EXCEPT !.pc = "heartbeat", !.computed = seen]
             ELSE IF busUp
             THEN [call EXCEPT !.pc = "heartbeat", !.computed = seen,
                               !.signals = Append(@, [cycle |-> call.cycle,
                                                      signal |-> signal]),
                               !.lastPublishedSignal = << signal >>]
             ELSE [CatchCycle(call, "bus") EXCEPT !.busFailed = TRUE, !.computed = seen]
    /\ UNCHANGED pipeVars

\* step 6: the heartbeat with status alive
AgentHeartbeat(busUp) ==
    /\ call.fn = "startSignalAgent"
    /\ call.pc = "heartbeat"
    /\ call' = IF busUp
               THEN [call EXCEPT !.pc = "sleep",
                                 !.heartbeats = @ \cup {[cycle |-> call.cycle,
                                                         status |-> "alive"]}]
               ELSE [CatchCycle(call, "bus") EXCEPT !.busFailed = TRUE]
    /\ UNCHANGED pipeVars

\* the catch block: the heartbeat with status error; if the bus refuses it the
\* exception leaves the loop and startSignalAgent rejects
AgentCatch(busUp) ==
    /\ call.fn = "startSignalAgent"
    /\ call.pc = "catch"
    /\ call' = IF busUp
               THEN [call EXCEPT !.pc = "sleep",
                                 !.heartbeats = @ \cup {[cycle |-> call.cycle,
                                                         status |-> "error"]}]
               ELSE [call EXCEPT !.pc = "crashed", !.busFailed = TRUE]
    /\ UNCHANGED pipeVars

\* step 7: sleep(config.signalPollIntervalMs) is over
AgentSleep ==
    /\ call.fn = "startSignalAgent"
    /\ call.pc = "sleep"
    /\ call' = [call EXCEPT !.pc = "loop"]
    /\ UNCHANGED pipeVars

NextAgent ==
    \/ AgentSignalled
    \/ AgentLoop
    \/ \E outcome \in RequestOutcomes, price \in PriceInputs :
          AgentPriceAttempt(outcome, price)
    \/ \E outcome \in RequestOutcomes, candles \in {0, SignalWindow} :
          AgentCandleAttempt(outcome, candles)
    \/ \E consensus \in ConsensusInputs, throws \in BOOLEAN, busUp \in BOOLEAN :
          AgentCompute(consensus, throws, busUp)
    \/ \E busUp \in BOOLEAN : AgentHeartbeat(busUp)
    \/ \E busUp \in BOOLEAN : AgentCatch(busUp)
    \/ AgentSleep

SpecAgent == InitAgent /\ [][NextAgent]_vars

\* the cycles that failed with a price-feed or an indicator error
FeedOrIndicatorFailures ==
    {f.cycle : f \in {g \in call.failed : g.cause \in {"feed", "indicator"}}}

\* cycle c has left its catch block
CaughtAndDone(c) == c < call.cycle \/ call.pc \in {"sleep", "loop", "stopped"}

C28_RetryAtMostThree ==
    call.fn = "startSignalAgent"
        => LET outcomes == call.retry.outcomes
               n        == Len(outcomes)
           IN  /\ n <= 3
               /\ \A k \in 1 .. (n - 1) : outcomes[k] = "429"
               /\ call.retry.status = "returned" <=> (n >= 1 /\ outcomes[n] = "ok")
               /\ call.retry.status = "thrown"
                     <=> (n >= 1 /\ (outcomes[n] = "error"
                                     \/ (outcomes[n] = "429" /\ n = 3)))
               /\ call.retry.status = "running"
                     <=> (n = 0 \/ (outcomes[n] = "429" /\ n < 3))
               /\ n >= 1 /\ call.retry.status = "running" => call.pc \in {"price", "ohlcv"}

\* two rate-limited attempts and a third that succeeds
C28_Witness ==
    /\ call.fn = "startSignalAgent"
    /\ call.retry = [outcomes |-> << "429", "429", "ok" >>, status |-> "returned"]
    /\ call.pc = "compute"

\* a third rate-limited attempt is rethrown and caught by the cycle
C28_ExhaustedWitness ==
    /\ call.fn = "startSignalAgent"
    /\ call.retry = [outcomes |-> << "429", "429", "429" >>, status |-> "thrown"]
    /\ call.pc = "catch"

\* ------------------------------------------------------------------------
\* price-feed: getHistoricalOHLCV over what the feed returns
\* ------------------------------------------------------------------------

\* price-feed.ts: MAX_RECORDS_PER_REQUEST
MAX_RECORDS_PER_REQUEST == 1000

\* getHistoricalOHLCV: chunkDays
chunkDays == 10

\* items in one response of the feed
MaxItems == 2

\* the items of a response: unixTime and close, in any order and with repeats
FeedItems == [unixTime : 1 .. 3, c : 1 .. 2]

FeedResponses == UNION {[1 .. n -> FeedItems] : n \in 0 .. MaxItems}

\* the Signal Agent asks for 2 days; 11 days are the shortest paginated range
DaysInputs == {2, 11}

\* Math.ceil(days / chunkDays)
ChunkCount(days) == (days + chunkDays - 1) \div chunkDays

\* getOHLCV: the items of the response mapped to candles, in the response's order
getOHLCV(items) ==
    [k \in DOMAIN items |-> [timestamp |-> items[k].unixTime, close |-> items[k].c]]

\* allCandles after the loop over the chunks
RECURSIVE AllCandles(_, _)
AllCandles(responses, chunks) ==
    IF chunks = 0 THEN << >>
    ELSE AllCandles(responses, chunks - 1) \o getOHLCV(responses[chunks])

\* Array.from(new Map(candles.map(c => [c.timestamp, c])).values()): a key keeps
\* the place of its first entry and the value of its last
RECURSIVE UniqueByTimestamp(_)
UniqueByTimestamp(candles) ==
    IF candles = << >> THEN << >>
    ELSE LET last   == candles[Len(candles)]
             before == UniqueByTimestamp(SubSeq(candles, 1, Len(candles) - 1))
         IN  IF \E k \in DOMAIN before : before[k].timestamp = last.timestamp
             THEN [k \in DOMAIN before |->
                      IF before[k].timestamp = last.timestamp THEN last ELSE before[k]]
             ELSE Append(before, last)

\* sort((a, b) => a.timestamp - b.timestamp): stable, equal timestamps keep their
\* order
RECURSIVE SortByTimestamp(_)
SortByTimestamp(candles) ==
    IF candles = << >> THEN << >>
    ELSE LET last   == candles[Len(candles)]
             before == SortByTimestamp(SubSeq(candles, 1, Len(candles) - 1))
             place  == Cardinality({k \in DOMAIN before :
                                       before[k].timestamp <= last.timestamp})
         IN  SubSeq(before, 1, place) \o << last >>
                \o SubSeq(before, place + 1, Len(before))

\* getHistoricalOHLCV(address, days) over the responses of the feed
getHistoricalOHLCV(days, responses) ==
    IF 4 * 24 * days > MAX_RECORDS_PER_REQUEST
    THEN SortByTimestamp(UniqueByTimestamp(AllCandles(responses, ChunkCount(days))))
    ELSE SortByTimestamp(getOHLCV(responses[1]))

InitHistorical ==
    /\ InitPipeline(BotConfig(2, "low", TRUE), NoSurroundings)
    /\ \E days \in DaysInputs :
       \E responses \in [1 .. (IF 4 * 24 * days > MAX_RECORDS_PER_REQUEST
                               THEN ChunkCount(days) ELSE 1) -> FeedResponses] :
          call = [fn |-> "getHistoricalOHLCV", days |-> days, responses |-> responses,
                  done |-> FALSE, candles |-> << >>]

CallGetHistoricalOHLCV ==
    /\ call.fn = "getHistoricalOHLCV"
    /\ ~call.done
    /\ call' = [call EXCEPT !.done = TRUE,
                            !.candles = getHistoricalOHLCV(call.days, call.responses)]
    /\ UNCHANGED pipeVars

NextHistorical == CallGetHistoricalOHLCV

SpecHistorical == InitHistorical /\ [][NextHistorical]_vars

\* C29: for every value of days, getHistoricalOHLCV returns candles in strictly
\* ascending timestamp order with no two candles sharing a timestamp, whatever
\* duplicates or ordering the feed returns, in the single-request and in the
\* paginated path
C29_StrictlyAscending ==
    (call.fn = "getHistoricalOHLCV" /\ call.done)
        => \A i, j \in DOMAIN call.candles :
              i < j => call.candles[i].timestamp < call.candles[j].timestamp

\* the paginated path alone returns strictly ascending timestamps
C29_PaginatedAscending ==
    (call.fn = "getHistoricalOHLCV" /\ call.done
       /\ 4 * 24 * call.days > MAX_RECORDS_PER_REQUEST)
        => \A i, j \in DOMAIN call.candles :
              i < j => call.candles[i].timestamp < call.candles[j].timestamp

\* every path returns ascending timestamps, repeats allowed
C29_Ascending ==
    (call.fn = "getHistoricalOHLCV" /\ call.done)
        => \A i, j \in DOMAIN call.candles :
              i < j => call.candles[i].timestamp <= call.candles[j].timestamp


\* signal a differs from signal b in recommendation, by more than 0.15 in
\* confidence or by more than 1 % of b's price
Differs(a, b) ==
    \/ a.recommendation # b.recommendation
    \/ Abs(a.confidence - b.confidence) > 15
    \/ Abs(a.price - b.price) * 100 > b.price

\* the signal computed in the current cycle went out on the signals channel
PublishedNow(signal) ==
    /\ call.signals # << >>
    /\ call.signals[Len(call.signals)] = [cycle |-> call.cycle, signal |-> signal]

C39_PublishedTwiceWitness ==
    /\ call.fn = "startSignalAgent" /\ ~call.busFailed
    /\ Len(call.signals) = 2
    /\ call.signals[2].signal.recommendation = call.signals[1].signal.recommendation
    /\ call.signals[2].signal.confidence = call.signals[1].signal.confidence


\* C38: adjustGridForVolatility is idempotent for fixed atrPct and minSpacing:
\* applied to its own output it returns a grid with the same levels, prices,
\* quantities and fill flags (a grid it has just widened is not widened again)
C38_AdjustIdempotent ==
    call.fn = "adjustGridForVolatility.again" => call.again = call.result

\* a grid with a filled level was widened, and the second application returned the
\* widened grid
C38_Witness ==
    /\ call.fn = "adjustGridForVolatility.again"
    /\ \E k \in DOMAIN call.grid : call.grid[k].filled
    /\ Len(call.grid) = 6
    /\ call.atrPct = 110
    /\ call.result # call.grid
    /\ call.again = call.result


\* C36: after any sequence of processExecution calls all open positions of the
\* paper portfolio are on the same side (never a buy and a sell position at the
\* same time), and each call changes the number of open positions by exactly +1
\* or -1
C36_OneSidedBook ==
    call.fn = "PaperPortfolio"
        => /\ \A i, j \in DOMAIN call.pf.openPositions :
                 call.pf.openPositions[i].side = call.pf.openPositions[j].side
           /\ call.op = "processExecution"
                 => Len(call.pf.openPositions) - Len(call.prev.openPositions) \in {1, -1}

\* two sells were open and a buy fill closed one of them
C36_Witness ==
    /\ call.fn = "PaperPortfolio"
    /\ call.op = "processExecution"
    /\ call.fill.action = "buy"
    /\ Len(call.prev.openPositions) = 2
    /\ \A k \in DOMAIN call.prev.openPositions : call.prev.openPositions[k].side = "sell"
    /\ Len(call.pf.openPositions) = 1

\* C37: after any sequence of fills and daily resets peakCapital is the largest
\* value currentCapital has taken since construction (so peak >= current), the
\* reported currentDrawdownPct is (peak - current) / peak x 100 (to the two
\* decimals it is rounded to) and never negative, and winCount <= tradeCount
C37_PeakAndDrawdown ==
    call.fn = "PaperPortfolio"
        => LET pf == call.pf
           IN  /\ pf.peakCapital = call.maxCapital
               /\ pf.peakCapital >= pf.currentCapital
               /\ getState(pf).currentDrawdownPct >= 0
               /\ 2 * Abs(getState(pf).currentDrawdownPct * pf.peakCapital
                          - (pf.peakCapital - pf.currentCapital) * BpScale)
                     <= pf.peakCapital
               /\ pf.winCount <= pf.tradeCount

\* a winning trade raised the peak, a losing one then left capital below it, and a
\* daily reset followed
C37_Witness ==
    /\ call.fn = "PaperPortfolio"
    /\ call.op = "resetDailyPnl"
    /\ call.pf.peakCapital > PortfolioCapital
    /\ call.pf.currentCapital < call.pf.peakCapital
    /\ getState(call.pf).currentDrawdownPct > 0
    /\ call.pf.tradeCount = 2 /\ call.pf.winCount = 1


\* the replay of call.candles after its first n candles
RECURSIVE RunAfter(_)
RunAfter(n) ==
    IF n = 0 THEN NewRun(call.candles, call.config)
    ELSE ReplayCandle(RunAfter(n - 1), call.candles[n], call.config)

\* percent change (in bp) of equity from the end of candle i - 1 to the end of
\* candle i, candles counted from 0
EquityChange(i) ==
    ((RunAfter(i + 1).equity - RunAfter(i).equity) * BpScale) \div RunAfter(i).equity

\* C34: in runBacktest the return recorded for candle i (i >= 1) in the series fed
\* to the Sharpe ratio equals the percent change of equity from the end of candle
\* i - 1 to the end of candle i, so a candle on which a trade realizes profit
\* contributes a non-zero return
C34_ReturnIsEquityChange ==
    call.fn = "runBacktest"
        => \A r \in Runs : \A i \in DOMAIN call[r].dailyReturns :
              call[r].dailyReturns[i] = EquityChange(i)

\* every return recorded for a candle after the second is zero
C34_LaterReturnsZero ==
    call.fn = "runBacktest"
        => \A r \in Runs : \A i \in DOMAIN call[r].dailyReturns :
              i >= 2 => call[r].dailyReturns[i] = 0


\* ------------------------------------------------------------------------
\* runBacktest over several grid configs, one of them with a spacing step below
\* the unit the level prices are rounded to
\* ------------------------------------------------------------------------

\* the seeding close of the replays on a low-priced series
TightClose == 10

\* candles around that close
TightShapes == [low : {9, TightClose}, high : {TightClose, 11}, close : {TightClose}]

\* GridConfigs with gridSpacingPct 0.5 % and 1 or 2 levels a side
TightConfigs ==
    {[gridSpacingPct |-> 50, gridLevels |-> levels, capitalUsd |-> Capital] :
        levels \in 1 .. 2}

InitBacktestAnyGrid ==
    /\ InitPipeline(BotConfig(2, "low", TRUE), NoSurroundings)
    /\ \E n \in 1 .. MaxCandles :
          \/ \E shapes \in [1 .. n -> CandleShapes] :
                LET candles == [k \in 1 .. n |-> shapes[k] @@ [timestamp |-> k - 1]]
                IN  call = [fn |-> "runBacktest", candles |-> candles,
                            config |-> BacktestConfig, now |-> 0,
                            first  |-> NewRun(candles, BacktestConfig),
                            second |-> NewRun(candles, BacktestConfig)]
          \/ \E shapes \in [1 .. n -> TightShapes], cfg \in TightConfigs :
                LET candles == [k \in 1 .. n |-> shapes[k] @@ [timestamp |-> k - 1]]
                IN  call = [fn |-> "runBacktest", candles |-> candles,
                            config |-> cfg, now |-> 0,
                            first  |-> NewRun(candles, cfg),
                            second |-> NewRun(candles, cfg)]

SpecBacktestAnyGrid == InitBacktestAnyGrid /\ [][NextBacktest]_vars

\* one spacing step of the grid is at least one unit of the price rounding
StepAtLeastUnit ==
    call.config.gridSpacingPct * call.candles[1].close >= BpScale

\* equity after every candle replayed so far is at least the equity before it, and
\* no drawdown was recorded
NeverLosesEquity(r) ==
    /\ \A n \in 1 .. call[r].i : RunAfter(n).equity >= RunAfter(n - 1).equity
    /\ call[r].peakEquity = call[r].equity
    /\ call[r].maxDrawdown = 0
    /\ \A k \in DOMAIN call[r].completedTrades :
          call[r].completedTrades[k].sellPrice >= call[r].completedTrades[k].buyPrice
    /\ Len(call[r].completedTrades) <= call.config.gridLevels

MaxBars == 3

\* candles tried: low <= close <= high over three prices
BarShapes ==
    {c \in [low : {99, 100, 101}, high : {99, 100, 101}, close : {99, 100, 101}] :
        c.low <= c.close /\ c.close <= c.high}

\* true range of candle k (k >= 2) against the close before it
TrueRange(candles, k) ==
    Max(candles[k].high - candles[k].low,
        Max(Abs(candles[k].high - candles[k - 1].close),
            Abs(candles[k].low - candles[k - 1].close)))

\* Wilder's smoothing over the true ranges up to candle k, as the fraction
\* num / den with den a power of period
RECURSIVE WilderATR(_, _, _)
WilderATR(candles, period, k) ==
    IF k = period + 1
    THEN [num |-> SumSeq([j \in 1 .. period |-> TrueRange(candles, j + 1)], period),
          den |-> period]
    ELSE LET before == WilderATR(candles, period, k - 1)
         IN  [num |-> before.num * (period - 1) + TrueRange(candles, k) * before.den,
              den |-> before.den * period]

\* calculateATR(candles, period), exact
calculateATR(candles, period) ==
    IF Len(candles) < period + 1 THEN [num |-> 0, den |-> 1]
    ELSE WilderATR(candles, period, Len(candles))

\* the arrays of calculateSuperTrend before its loop; prices in them are scaled
\* by 2 * atr.den, so that hl2 and the bands are integers
InitSuperTrend ==
    /\ InitPipeline(BotConfig(2, "low", TRUE), NoSurroundings)
    /\ \E n \in 1 .. MaxBars : \E candles \in [1 .. n -> BarShapes] :
       \E atrPeriod \in 1 .. 2, multiplier \in 1 .. 2 :
          call = [fn |-> "calculateSuperTrend", candles |-> candles,
                  atr |-> calculateATR(candles, atrPeriod), multiplier |-> multiplier,
                  upperBand |-> << >>, lowerBand |-> << >>, supertrend |-> << >>,
                  direction |-> << >>, result |-> << >>]

\* direction.push(1) for the first bar
FirstDirection == 1

\* one iteration of the loop, for bar i = Len(direction) + 1 (the code's i + 1)
SuperTrendBar ==
    /\ call.fn = "calculateSuperTrend"
    /\ call.result = << >>
    /\ Len(call.direction) < Len(call.candles)
    /\ LET i          == Len(call.direction) + 1
           candle     == call.candles[i]
           scale      == 2 * call.atr.den
           close      == candle.close * scale
           basicUpper == (candle.high + candle.low) * call.atr.den
                            + 2 * call.multiplier * call.atr.num
           basicLower == (candle.high + candle.low) * call.atr.den
                            - 2 * call.multiplier * call.atr.num
       IN  IF i = 1
           THEN call' = [call EXCEPT !.upperBand = << basicUpper >>,
                                     !.lowerBand = << basicLower >>,
                                     !.supertrend = << basicUpper >>,
                                     !.direction = << FirstDirection >>]
           ELSE LET prevClose  == call.candles[i - 1].close * scale
                    finalUpper == IF basicUpper < call.upperBand[i - 1]
                                     \/ prevClose > call.upperBand[i - 1]
                                  THEN basicUpper ELSE call.upperBand[i - 1]
                    finalLower == IF basicLower > call.lowerBand[i - 1]
                                     \/ prevClose < call.lowerBand[i - 1]
                                  THEN basicLower ELSE call.lowerBand[i - 1]
                    down       == IF call.supertrend[i - 1] = call.upperBand[i - 1]
                                  THEN close <= finalUpper
                                  ELSE ~(close >= finalLower)
                IN  call' = [call EXCEPT
                               !.upperBand  = Append(@, finalUpper),
                               !.lowerBand  = Append(@, finalLower),
                               !.supertrend = Append(@, IF down THEN finalUpper
                                                        ELSE finalLower),
                               !.direction  = Append(@, IF down THEN -1 ELSE 1)]
    /\ UNCHANGED pipeVars

\* the value and direction of the last bar are returned
SuperTrendReturn ==
    /\ call.fn = "calculateSuperTrend"
    /\ call.result = << >>
    /\ Len(call.direction) = Len(call.candles)
    /\ call' = [call EXCEPT !.result =
                   << [value |-> call.supertrend[Len(call.supertrend)],
                       direction |-> IF call.direction[Len(call.direction)] = 1
                                     THEN "up" ELSE "down"] >>]
    /\ UNCHANGED pipeVars

NextSuperTrend == SuperTrendBar \/ SuperTrendReturn

SpecSuperTrend == InitSuperTrend /\ [][NextSuperTrend]_vars

\* the close of bar i, on the scale of the bands
ScaledClose(i) == call.candles[i].close * 2 * call.atr.den

\* C40: across the bars of a candle series the SuperTrend direction changes from
\* up to down at bar i only if bar i's close is below its final lower band, and
\* from down to up only if bar i's close is above its final upper band; on every
\* other bar the direction of the previous bar is kept
C40_FlipsOnlyOnCross ==
    call.fn = "calculateSuperTrend"
        => \A i \in 2 .. Len(call.direction) :
              /\ (call.direction[i - 1] = 1 /\ call.direction[i] = -1)
                    => ScaledClose(i) < call.lowerBand[i]
              /\ (call.direction[i - 1] = -1 /\ call.direction[i] = 1)
                    => ScaledClose(i) > call.upperBand[i]

\* from the third bar on, with distinct bands, the direction flips only on a cross
C40_LaterBarsFlipOnCross ==
    call.fn = "calculateSuperTrend"
        => \A i \in 3 .. Len(call.direction) :
              call.lowerBand[i - 1] # call.upperBand[i - 1]
                 => /\ (call.direction[i - 1] = 1 /\ call.direction[i] = -1)
                          => ScaledClose(i) < call.lowerBand[i]
                    /\ (call.direction[i - 1] = -1 /\ call.direction[i] = 1)
                          => ScaledClose(i) > call.upperBand[i]


\* ------------------------------------------------------------------------
\* The pipeline fed by the Signal Agent: the SignalMessage it builds from the
\* engine's result and what the Optimizer reads from it
\* ------------------------------------------------------------------------

\* ATRIndicator.compute(..).values for a close and an ATR of atrPct (bp) of it
ATRValues(price, atrPct) ==
    [atr |-> RoundDiv(price * atrPct, BpScale), atr_pct |-> atrPct]

\* extractIndicatorValues(indicators): every value under the key name_key
extractIndicatorValues(indicators) ==
    LET entries == {<<name, key>> \in (DOMAIN indicators) \X {"atr", "atr_pct"} :
                       key \in DOMAIN indicators[name].values}
    IN  [flat \in {e[1] \o "_" \o e[2] : e \in entries} |->
            LET e == CHOOSE e \in entries : e[1] \o "_" \o e[2] = flat
            IN  indicators[e[1]].values[e[2]]]

\* signal.indicators.atr as the Optimizer reads it; 0 stands for undefined
IndicatorsAtr(indicators) ==
    IF "atr" \in DOMAIN indicators THEN indicators["atr"] ELSE 0

\* the signal the Optimizer handles when the Signal Agent published it for a price
\* and an ATR indicator output
AgentSig(price, atrPct) ==
    LET indicators == extractIndicatorValues([atr |-> [values |-> ATRValues(price, atrPct)]])
    IN  Sig(price, IndicatorsAtr(indicators)) @@ [indicators |-> indicators]

\* the grid is seeded in a calm market; then the ATR reports 3 % against a grid
\* spacing of 1 % while the price crosses the first sell and the first buy level
VolatileFeed ==
    <<{AgentSig(CentrePrice, 50)}, {AgentSig(CentrePrice + 15, 300)},
      {AgentSig(CentrePrice - 15, 300), AgentSig(CentrePrice - 15, 50)}>>

InitVolatile ==
    InitWith(BotConfig(2, "low", TRUE),
             [feed |-> VolatileFeed, draws |-> RandomDraws, commands |-> MaxCommands,
              midnights |-> MaxMidnights, overlap |-> MaxOverlap,
              paced |-> 0, warmup |-> 1, calm |-> FALSE])

SpecVolatile == InitVolatile /\ [][Next]_vars

\* the largest atr_pct the ATR indicator reported in a signal the Optimizer
\* handled so far (0 if none)
HandledAtrPct ==
    LET reported == {signal.indicators["atr_atr_pct"] :
                        signal \in UNION {env.feed[k] : k \in (1 .. sigCount) \ pausedSigs}}
    IN  IF reported = {} THEN 0 ELSE MaxOf(reported)

\* C33: in the running pipeline, when the Signal Agent's ATR indicator reports a
\* volatility above the configured gridSpacingPct, the Optimizer's handling of that
\* signal calls adjustGridForVolatility, so that the grid is regenerated with wider
\* spacing and its fill flags are reset
C33_VolatilityWidensGrid ==
    (sigCount = 2 /\ pausedSigs = {} /\ HandledAtrPct > config.grid.gridSpacingPct)
        => /\ Len(grids) > 1
           /\ SpacingAdequate(currentGrid, HandledAtrPct, riskProfile.gridSpacingMinPct)

\* whatever the ATR indicator reports, the Optimizer keeps the array of the first
\* grid
C33_GridNeverRegenerated == Len(grids) = 1


\* ------------------------------------------------------------------------
\* The pipeline with two signal handlers in flight at once
\* ------------------------------------------------------------------------

\* the grid is seeded, then two signals above the first sell level arrive, the
\* second while the handler of the first is still awaiting its publish
CrossTwiceFeed ==
    <<{Sig(CentrePrice, 0)}, {Sig(CentrePrice + 15, 0)}, {Sig(CentrePrice + 15, 0)}>>

InitOverlap ==
    InitWith(BotConfig(2, "low", TRUE),
             [feed |-> CrossTwiceFeed, draws |-> RandomDraws, commands |-> MaxCommands,
              midnights |-> MaxMidnights, overlap |-> MaxOverlap + 1,
              paced |-> 1, warmup |-> 1, calm |-> TRUE])

SpecOverlap == InitOverlap /\ [][Next]_vars

\* C31: between two grid (re)generations the Optimizer publishes at most one
\* order for any given grid level, also when the handling of two signals
\* interleaves at the awaits inside the signal handler
C31_OneOrderPerLevel ==
    Len(grids) = 1
        => \A i, j \in DOMAIN orders :
              (i < j /\ orders[i].strategy = "grid" /\ orders[j].strategy = "grid")
                 => orders[i].gridLevel # orders[j].gridLevel

\* with one handler at a time no level has two orders waiting
C31_TwoOrdersNeedOverlap ==
    \A i, j \in DOMAIN orders :
        (i < j /\ orders[i].gridLevel = orders[j].gridLevel
           /\ orders[i].strategy = "grid" /\ orders[j].strategy = "grid")
           => orders[i].sig # orders[j].sig


\* ------------------------------------------------------------------------
\* The pipeline in paper mode and with paper mode off, with pause and resume
\* ------------------------------------------------------------------------

\* the grid is seeded, then the price crosses the first sell level and the first
\* buy level
CrossBothFeed ==
    <<{Sig(CentrePrice, 0)}, {Sig(CentrePrice + 15, 0)}, {Sig(CentrePrice - 15, 0)}>>

InitDiscard ==
    \E paper \in BOOLEAN :
        InitWith(BotConfig(2, "low", paper),
                 [feed |-> CrossBothFeed, draws |-> RandomDraws,
                  commands |-> MaxCommands + 1,
                  midnights |-> MaxMidnights, overlap |-> MaxOverlap,
                  paced |-> 0, warmup |-> 1, calm |-> FALSE])

SpecDiscard == InitDiscard /\ [][Next]_vars

\* the k-th order the Executor received was skipped: paused, or not in paper mode
Discarded(k) == recvLog[k].paused \/ ~config.paperTradeMode

\* the signal handler that published the order for grid level idx has run on past
\* its publish
PublishResumed(idx) ==
    ~\E p \in DOMAIN optPending :
        /\ optPending[p].kind = "grid"
        /\ grids[optPending[p].gen][optPending[p].idx].index = idx

C32_LiveWitness ==
    /\ ~config.paperTradeMode
    /\ Len(recvLog) = 2
    /\ optPending = << >>
    /\ portfolioState.openPositionCount = 2
    /\ portfolio.openPositions = << >>

=============================================================================
